---- MODULE Spec2Model ----
(***************************************************************************)
(* Model of the overlapping-pair registry (engine/OverlappingPairs.cpp)    *)
(* and of the broad-phase coordinator (systems/BroadPhaseSystem.cpp) of    *)
(* ReactPhysics3D.                                                         *)
(*                                                                         *)
(* The registry is a structure of arrays; the model keeps one array per    *)
(* source array, indexed from 0 as in the source.  A slot that holds no    *)
(* constructed pair (never constructed, or destroyed by destroyPair) has   *)
(* mLive[i] = FALSE and default contents; the code never reads such a      *)
(* slot, and the model turns such a read into an abort.                    *)
(* A failed assert stops the program: abort holds the name of the failed   *)
(* assertion and no operation runs afterwards.                             *)
(*                                                                         *)
(* The methods are operators from a registry value to a registry value.    *)
(* Each one evaluates the registry it is given once (Force) and then       *)
(* works on that value, as the code works on the object.                   *)
(***************************************************************************)
EXTENDS Integers, Sequences, FiniteSets, TLC

\* ------------------------------------------------------------------ bounds
\* The registry never holds more than MaxPairs pairs in the registry scenario.
MaxPairs == 4
\* At most MaxInfos last-frame entries exist at a time.
MaxInfos == 2

\* Initial capacity of the pair buffer (constructor, allocate(INIT_NB_ALLOCATED_PAIRS)).
\* The model takes a small capacity so that the buffer grows.
INIT_NB_ALLOCATED_PAIRS == 2

\* Margin by which the tree fattens a bounding box.
DYNAMIC_TREE_AABB_GAP == 1

\* ---------------------------------------------------------------- universe
\* Proxy shapes (the entity of a proxy shape is its number).
Shapes == {1, 2, 3, 4}
\* Shapes whose collision shape is concave; the others are convex.
ConcaveShapes == {4}
\* Owning body of each proxy shape.
BodyOf(s) == IF s \in {1, 2} THEN 1 ELSE s
\* Shape-local feature identifiers used as keys of the last-frame cache.
FeatureIds == {0, 1}
\* Broad-phase ids of the shapes in the registry scenario.
RegistryBroadPhaseIds == [s \in Shapes |-> (s * 3) % 5]

isConvex(s) == s \notin ConcaveShapes

\* addPair, line 249: the class of a pair.
bothConvexEither(shape1, shape2) == isConvex(shape1) \/ isConvex(shape2)
bothConvex(shape1, shape2) == isConvex(shape1) /\ isConvex(shape2)

Max(a, b) == IF a >= b THEN a ELSE b
Min(a, b) == IF a <= b THEN a ELSE b

\* Elegant pairing of two sorted numbers, number1 = max(number1, number2).
pairNumbers(number1, number2) == number1 * number1 + number1 + number2

\* The pair identity addPair computes from two broad-phase ids.  The ids of
\* tracked shapes are not negative, so the cast to uint32 keeps their value.
ComputePairIdUnsorted(id1, id2) == pairNumbers(id1, id2)
ComputePairId(id1, id2) == pairNumbers(Max(id1, id2), Min(id1, id2))

\* The value of F at v, with v evaluated once.
Force(F(_), v) == CHOOSE y \in { F(x) : x \in {v} } : TRUE

\* ------------------------------------------------------------------- state
VARIABLES
    mNbPairs,                 \* number of pairs
    mConcavePairsStartIndex,  \* index of the first convex vs concave pair
    mNbAllocatedPairs,        \* capacity of the buffer
    mPairIds,                 \* the arrays of the buffer, index -> value
    mPairBroadPhaseId1,
    mPairBroadPhaseId2,
    mProxyShapes1,
    mProxyShapes2,
    mLastFrameCollisionInfos, \* index -> (feature key -> entry)
    mNeedToTestOverlap,
    mIsActive,
    mLive,                    \* index -> the slot holds a constructed pair
    mMapPairIdToPairIndex,    \* pair id -> index
    mOverlappingPairs,        \* ProxyShapeComponents: shape -> set of pair ids
    mAllocatedInfos,          \* MemoryAllocator: the entries allocated and not released
    abort,                    \* "", the assertion that stopped the program, or "destroyed"
    mBroadPhaseId,            \* ProxyShapeComponents: shape -> broad-phase id
    mNodes,                   \* DynamicAABBTree: leaf node id -> fat AABB and shape
    mMovedShapes,             \* BroadPhaseSystem: ids of the shapes that moved
    notified,                 \* pairs notified by the last computeOverlappingPairs()
    movedAtStart,             \* the moved set when that call started
    lastCall,                 \* the last operation, its arguments and result
    mIsEntityDisabled,        \* CollisionBodyComponents: body -> disabled
    mBodyType,                \* RigidBodyComponents: body -> type, "none" without component
    mNoCollisionPairs,        \* OverlappingPairs: body pairs that cannot collide
    isPairActive,             \* the last computeIsPairActive(), arguments and value
    mProxyShapesComponents,   \* ProxyShapeComponents: the entities by component
                              \* index, enabled ones first, and their number
    lastQuery                 \* the last query of the broad phase, arguments and value

regVars == << mNbPairs, mConcavePairsStartIndex, mNbAllocatedPairs, mPairIds,
              mPairBroadPhaseId1, mPairBroadPhaseId2, mProxyShapes1,
              mProxyShapes2, mLastFrameCollisionInfos, mNeedToTestOverlap,
              mIsActive, mLive, mMapPairIdToPairIndex, mOverlappingPairs,
              mAllocatedInfos, abort >>

bpVars == << mBroadPhaseId, mNodes, mMovedShapes, notified, movedAtStart >>

bodyVars == << mIsEntityDisabled, mBodyType, mNoCollisionPairs, isPairActive,
              mProxyShapesComponents >>

queryVars == << lastQuery >>

vars == << mNbPairs, mConcavePairsStartIndex, mNbAllocatedPairs, mPairIds,
           mPairBroadPhaseId1, mPairBroadPhaseId2, mProxyShapes1,
           mProxyShapes2, mLastFrameCollisionInfos, mNeedToTestOverlap,
           mIsActive, mLive, mMapPairIdToPairIndex, mOverlappingPairs,
           mAllocatedInfos, abort, mBroadPhaseId, mNodes, mMovedShapes, notified,
           movedAtStart, lastCall, mIsEntityDisabled, mBodyType,
           mNoCollisionPairs, isPairActive, mProxyShapesComponents, lastQuery >>

\* The registry as one value.
Reg ==
    [ mNbPairs |-> mNbPairs,
      mConcavePairsStartIndex |-> mConcavePairsStartIndex,
      mNbAllocatedPairs |-> mNbAllocatedPairs,
      mPairIds |-> mPairIds,
      mPairBroadPhaseId1 |-> mPairBroadPhaseId1,
      mPairBroadPhaseId2 |-> mPairBroadPhaseId2,
      mProxyShapes1 |-> mProxyShapes1,
      mProxyShapes2 |-> mProxyShapes2,
      mLastFrameCollisionInfos |-> mLastFrameCollisionInfos,
      mNeedToTestOverlap |-> mNeedToTestOverlap,
      mIsActive |-> mIsActive,
      mLive |-> mLive,
      mMapPairIdToPairIndex |-> mMapPairIdToPairIndex,
      mOverlappingPairs |-> mOverlappingPairs,
      mAllocatedInfos |-> mAllocatedInfos,
      abort |-> abort ]

\* The registry becomes R.
SetReg(R) ==
    \E r \in {R} :
       /\ mNbPairs' = r.mNbPairs
       /\ mConcavePairsStartIndex' = r.mConcavePairsStartIndex
       /\ mNbAllocatedPairs' = r.mNbAllocatedPairs
       /\ mPairIds' = r.mPairIds
       /\ mPairBroadPhaseId1' = r.mPairBroadPhaseId1
       /\ mPairBroadPhaseId2' = r.mPairBroadPhaseId2
       /\ mProxyShapes1' = r.mProxyShapes1
       /\ mProxyShapes2' = r.mProxyShapes2
       /\ mLastFrameCollisionInfos' = r.mLastFrameCollisionInfos
       /\ mNeedToTestOverlap' = r.mNeedToTestOverlap
       /\ mIsActive' = r.mIsActive
       /\ mLive' = r.mLive
       /\ mMapPairIdToPairIndex' = r.mMapPairIdToPairIndex
       /\ mOverlappingPairs' = r.mOverlappingPairs
       /\ mAllocatedInfos' = r.mAllocatedInfos
       /\ abort' = r.abort

\* The registry is R (initial state).
SetRegInit(R) ==
    /\ mNbPairs = R.mNbPairs
    /\ mConcavePairsStartIndex = R.mConcavePairsStartIndex
    /\ mNbAllocatedPairs = R.mNbAllocatedPairs
    /\ mPairIds = R.mPairIds
    /\ mPairBroadPhaseId1 = R.mPairBroadPhaseId1
    /\ mPairBroadPhaseId2 = R.mPairBroadPhaseId2
    /\ mProxyShapes1 = R.mProxyShapes1
    /\ mProxyShapes2 = R.mProxyShapes2
    /\ mLastFrameCollisionInfos = R.mLastFrameCollisionInfos
    /\ mNeedToTestOverlap = R.mNeedToTestOverlap
    /\ mIsActive = R.mIsActive
    /\ mLive = R.mLive
    /\ mMapPairIdToPairIndex = R.mMapPairIdToPairIndex
    /\ mOverlappingPairs = R.mOverlappingPairs
    /\ mAllocatedInfos = R.mAllocatedInfos
    /\ abort = R.abort

\* A failed assertion: the registry stays as it is at that point.
Abort(R, what) == [R EXCEPT !.abort = what]

\* An empty Map<ShapeIdPair, LastFrameCollisionInfo*>.
EmptyInfos == [k \in {} |-> [isObsolete |-> FALSE, sweeps |-> 0, ptr |-> 0]]

\* LastFrameCollisionInfo() constructed at the address ptr: a fresh entry is
\* not obsolete.  sweeps counts the sweeps the entry went through since it
\* was last touched.
NewLastFrameCollisionInfo(ptr) == [isObsolete |-> FALSE, sweeps |-> 0, ptr |-> ptr]

\* MemoryAllocator::allocate(sizeof(LastFrameCollisionInfo)): an address
\* that is not in use, the lowest one.
allocateInfo(allocated) ==
    CHOOSE ptr \in 0 .. Cardinality(allocated) :
       /\ ptr \notin allocated
       /\ \A q \in 0 .. (ptr - 1) : q \in allocated

\* The loops of lines 134-142 and 60-67: the entry of every key of keys in
\* the cache infos is destroyed and released.  A release of an address the
\* allocator does not hold in use stops the model.
releaseInfosNever(R, infos, keys) == R
releaseInfos(R, infos, keys) ==
    LET body(r) ==
          IF r.abort # "" THEN r
          ELSE IF \/ \E k \in keys : infos[k].ptr \notin r.mAllocatedInfos
                  \/ \E k1 \in keys, k2 \in keys : k1 # k2 /\ infos[k1].ptr = infos[k2].ptr
               THEN Abort(r, "release:entry not allocated")
          ELSE [r EXCEPT !.mAllocatedInfos = @ \ { infos[k].ptr : k \in keys }]
    IN Force(body, R)

\* Map::remove(key) and Map::add(Pair(key, value)).
MapRemove(m, key) == [k \in (DOMAIN m) \ {key} |-> m[k]]
MapAdd(m, key, value) ==
    [k \in (DOMAIN m) \cup {key} |-> IF k = key THEN value ELSE m[k]]

\* ------------------------------------------------- OverlappingPairs methods
\* allocate(nbPairsToAllocate): a new buffer, the first mNbPairs elements of
\* every array copied, the rest not constructed.
AllocateDropsLast(R, nbPairsToAllocate) ==
    LET body(r) ==
          IF r.abort # "" THEN r
          ELSE IF ~(nbPairsToAllocate > r.mNbAllocatedPairs) THEN Abort(r, "allocate:191")
          ELSE LET idx == 0 .. (nbPairsToAllocate - 1)
                   old(i) == i < r.mNbPairs - 1
               IN [r EXCEPT
                     !.mPairIds = [i \in idx |-> IF old(i) THEN r.mPairIds[i] ELSE 0],
                     !.mPairBroadPhaseId1 = [i \in idx |-> IF old(i) THEN r.mPairBroadPhaseId1[i] ELSE 0],
                     !.mPairBroadPhaseId2 = [i \in idx |-> IF old(i) THEN r.mPairBroadPhaseId2[i] ELSE 0],
                     !.mProxyShapes1 = [i \in idx |-> IF old(i) THEN r.mProxyShapes1[i] ELSE 0],
                     !.mProxyShapes2 = [i \in idx |-> IF old(i) THEN r.mProxyShapes2[i] ELSE 0],
                     !.mLastFrameCollisionInfos = [i \in idx |-> IF old(i) THEN r.mLastFrameCollisionInfos[i] ELSE EmptyInfos],
                     !.mNeedToTestOverlap = [i \in idx |-> IF old(i) THEN r.mNeedToTestOverlap[i] ELSE FALSE],
                     !.mIsActive = [i \in idx |-> IF old(i) THEN r.mIsActive[i] ELSE FALSE],
                     !.mLive = [i \in idx |-> IF old(i) THEN r.mLive[i] ELSE FALSE],
                     !.mNbAllocatedPairs = nbPairsToAllocate]
    IN Force(body, R)

allocate(R, nbPairsToAllocate) ==
    LET body(r) ==
          IF r.abort # "" THEN r
          ELSE IF ~(nbPairsToAllocate > r.mNbAllocatedPairs) THEN Abort(r, "allocate:191")
          ELSE LET idx == 0 .. (nbPairsToAllocate - 1)
                   old(i) == i < r.mNbPairs
               IN [r EXCEPT
                     !.mPairIds = [i \in idx |-> IF old(i) THEN r.mPairIds[i] ELSE 0],
                     !.mPairBroadPhaseId1 = [i \in idx |-> IF old(i) THEN r.mPairBroadPhaseId1[i] ELSE 0],
                     !.mPairBroadPhaseId2 = [i \in idx |-> IF old(i) THEN r.mPairBroadPhaseId2[i] ELSE 0],
                     !.mProxyShapes1 = [i \in idx |-> IF old(i) THEN r.mProxyShapes1[i] ELSE 0],
                     !.mProxyShapes2 = [i \in idx |-> IF old(i) THEN r.mProxyShapes2[i] ELSE 0],
                     !.mLastFrameCollisionInfos = [i \in idx |-> IF old(i) THEN r.mLastFrameCollisionInfos[i] ELSE EmptyInfos],
                     !.mNeedToTestOverlap = [i \in idx |-> IF old(i) THEN r.mNeedToTestOverlap[i] ELSE FALSE],
                     !.mIsActive = [i \in idx |-> IF old(i) THEN r.mIsActive[i] ELSE FALSE],
                     !.mLive = [i \in idx |-> IF old(i) THEN r.mLive[i] ELSE FALSE],
                     !.mNbAllocatedPairs = nbPairsToAllocate]
    IN Force(body, R)

\* destroyPair(index): the identity leaves the lookup, the slot is destroyed.
destroyPairKeepsLookup(R, index) ==
    LET body(r) ==
          IF r.abort # "" THEN r
          ELSE IF ~(index < r.mNbPairs) THEN Abort(r, "destroyPair:352")
          ELSE IF ~r.mLive[index] THEN Abort(r, "destroyPair:read of a destroyed pair")
          ELSE IF r.mPairIds[index] \notin DOMAIN r.mMapPairIdToPairIndex
                    \/ r.mMapPairIdToPairIndex[r.mPairIds[index]] # index
               THEN Abort(r, "destroyPair:354")
          ELSE [r EXCEPT
                  !.mPairIds[index] = 0,
                  !.mPairBroadPhaseId1[index] = 0,
                  !.mPairBroadPhaseId2[index] = 0,
                  !.mProxyShapes1[index] = 0,
                  !.mProxyShapes2[index] = 0,
                  !.mLastFrameCollisionInfos[index] = EmptyInfos,
                  !.mNeedToTestOverlap[index] = FALSE,
                  !.mIsActive[index] = FALSE,
                  !.mLive[index] = FALSE]
    IN Force(body, R)

destroyPair(R, index) ==
    LET body(r) ==
          IF r.abort # "" THEN r
          ELSE IF ~(index < r.mNbPairs) THEN Abort(r, "destroyPair:352")
          ELSE IF ~r.mLive[index] THEN Abort(r, "destroyPair:read of a destroyed pair")
          ELSE IF r.mPairIds[index] \notin DOMAIN r.mMapPairIdToPairIndex
                    \/ r.mMapPairIdToPairIndex[r.mPairIds[index]] # index
               THEN Abort(r, "destroyPair:354")
          ELSE [r EXCEPT
                  !.mMapPairIdToPairIndex = MapRemove(@, r.mPairIds[index]),
                  !.mPairIds[index] = 0,
                  !.mPairBroadPhaseId1[index] = 0,
                  !.mPairBroadPhaseId2[index] = 0,
                  !.mProxyShapes1[index] = 0,
                  !.mProxyShapes2[index] = 0,
                  !.mLastFrameCollisionInfos[index] = EmptyInfos,
                  !.mNeedToTestOverlap[index] = FALSE,
                  !.mIsActive[index] = FALSE,
                  !.mLive[index] = FALSE]
    IN Force(body, R)

\* movePairToIndex, lines 305-310: the moved pair enters the lookup again,
\* at its new index.
remapPair(R, pairId, destIndex) ==
    LET body(r) ==
          IF r.abort # "" THEN r
          ELSE IF pairId \in DOMAIN r.mMapPairIdToPairIndex
               THEN Abort(r, "movePairToIndex:305")
          ELSE [r EXCEPT !.mMapPairIdToPairIndex = MapAdd(@, pairId, destIndex)]
    IN Force(body, R)

\* movePairToIndex, line 308: the lookup gets the destination index.
movePairToIndexStaleLookup(R, srcIndex, destIndex) ==
    LET body(r) ==
          IF r.abort # "" THEN r
          ELSE IF ~(srcIndex < r.mNbAllocatedPairs /\ destIndex < r.mNbAllocatedPairs)
               THEN Abort(r, "movePairToIndex:index out of the buffer")
          ELSE IF ~r.mLive[srcIndex]
               THEN Abort(r, "movePairToIndex:read of a destroyed pair")
          ELSE remapPair(
                 destroyPair(
                   [r EXCEPT
                      !.mPairIds[destIndex] = r.mPairIds[srcIndex],
                      !.mPairBroadPhaseId1[destIndex] = r.mPairBroadPhaseId1[srcIndex],
                      !.mPairBroadPhaseId2[destIndex] = r.mPairBroadPhaseId2[srcIndex],
                      !.mProxyShapes1[destIndex] = r.mProxyShapes1[srcIndex],
                      !.mProxyShapes2[destIndex] = r.mProxyShapes2[srcIndex],
                      !.mLastFrameCollisionInfos[destIndex] = r.mLastFrameCollisionInfos[srcIndex],
                      !.mNeedToTestOverlap[destIndex] = r.mNeedToTestOverlap[srcIndex],
                      !.mIsActive[destIndex] = r.mIsActive[srcIndex],
                      !.mLive[destIndex] = TRUE],
                   srcIndex),
                 r.mPairIds[srcIndex], srcIndex)
    IN Force(body, R)

\* movePairToIndex, line 298: the cache of the pair moves with it.
movePairToIndexLeavesInfos(R, srcIndex, destIndex) ==
    LET body(r) ==
          IF r.abort # "" THEN r
          ELSE IF ~(srcIndex < r.mNbAllocatedPairs /\ destIndex < r.mNbAllocatedPairs)
               THEN Abort(r, "movePairToIndex:index out of the buffer")
          ELSE IF ~r.mLive[srcIndex]
               THEN Abort(r, "movePairToIndex:read of a destroyed pair")
          ELSE remapPair(
                 destroyPair(
                   [r EXCEPT
                      !.mPairIds[destIndex] = r.mPairIds[srcIndex],
                      !.mPairBroadPhaseId1[destIndex] = r.mPairBroadPhaseId1[srcIndex],
                      !.mPairBroadPhaseId2[destIndex] = r.mPairBroadPhaseId2[srcIndex],
                      !.mProxyShapes1[destIndex] = r.mProxyShapes1[srcIndex],
                      !.mProxyShapes2[destIndex] = r.mProxyShapes2[srcIndex],
                      !.mLastFrameCollisionInfos[destIndex] = EmptyInfos,
                      !.mNeedToTestOverlap[destIndex] = r.mNeedToTestOverlap[srcIndex],
                      !.mIsActive[destIndex] = r.mIsActive[srcIndex],
                      !.mLive[destIndex] = TRUE],
                   srcIndex),
                 r.mPairIds[srcIndex], destIndex)
    IN Force(body, R)

\* movePairToIndex(srcIndex, destIndex)
movePairToIndex(R, srcIndex, destIndex) ==
    LET body(r) ==
          IF r.abort # "" THEN r
          ELSE IF ~(srcIndex < r.mNbAllocatedPairs /\ destIndex < r.mNbAllocatedPairs)
               THEN Abort(r, "movePairToIndex:index out of the buffer")
          ELSE IF ~r.mLive[srcIndex]
               THEN Abort(r, "movePairToIndex:read of a destroyed pair")
          ELSE remapPair(
                 destroyPair(
                   [r EXCEPT
                      !.mPairIds[destIndex] = r.mPairIds[srcIndex],
                      !.mPairBroadPhaseId1[destIndex] = r.mPairBroadPhaseId1[srcIndex],
                      !.mPairBroadPhaseId2[destIndex] = r.mPairBroadPhaseId2[srcIndex],
                      !.mProxyShapes1[destIndex] = r.mProxyShapes1[srcIndex],
                      !.mProxyShapes2[destIndex] = r.mProxyShapes2[srcIndex],
                      !.mLastFrameCollisionInfos[destIndex] = r.mLastFrameCollisionInfos[srcIndex],
                      !.mNeedToTestOverlap[destIndex] = r.mNeedToTestOverlap[srcIndex],
                      !.mIsActive[destIndex] = r.mIsActive[srcIndex],
                      !.mLive[destIndex] = TRUE],
                   srcIndex),
                 r.mPairIds[srcIndex], destIndex)
    IN Force(body, R)

\* prepareAddPair, lines 112-114: the insertion index of a convex vs convex
\* pair is the partition boundary, which then moves up by one.
\* << registry, insertion index >>
takeBoundarySlot(R) ==
    LET body(r) ==
          IF r.abort # "" THEN << r, 0 >>
          ELSE << [r EXCEPT !.mConcavePairsStartIndex = @ + 1],
                  r.mConcavePairsStartIndex >>
    IN Force(body, R)

\* prepareAddPair, lines 94-117, once the buffer has room.
\* << registry, insertion index >>
insertionIndexNoMove(R, isConvexVsConvex) ==
    LET body(r) ==
          IF r.abort # "" THEN << r, 0 >>
          ELSE IF ~isConvexVsConvex THEN << r, r.mNbPairs >>
          ELSE takeBoundarySlot(r)
    IN Force(body, R)
insertionIndex(R, isConvexVsConvex) ==
    LET body(r) ==
          IF r.abort # "" THEN << r, 0 >>
          ELSE IF ~isConvexVsConvex THEN << r, r.mNbPairs >>
          ELSE takeBoundarySlot(
                 IF r.mConcavePairsStartIndex # r.mNbPairs
                 THEN movePairToIndex(r, r.mConcavePairsStartIndex, r.mNbPairs)
                 ELSE r)
    IN Force(body, R)

\* prepareAddPair(isConvexVsConvex): << registry, insertion index >>
prepareAddPair(R, isConvexVsConvex) ==
    LET body(r) ==
          insertionIndex(
            IF r.mNbPairs = r.mNbAllocatedPairs
            THEN allocate(r, r.mNbAllocatedPairs * 2)
            ELSE r,
            isConvexVsConvex)
    IN Force(body, R)

\* The two assertions that end addPair (lines 280-281) and removePair
\* (lines 184-185).
checkCounts(R, boundaryLabel, sizeLabel) ==
    LET body(r) ==
          IF r.abort # "" THEN r
          ELSE IF ~(r.mConcavePairsStartIndex <= r.mNbPairs) THEN Abort(r, boundaryLabel)
          ELSE IF r.mNbPairs # Cardinality(DOMAIN r.mMapPairIdToPairIndex)
               THEN Abort(r, sizeLabel)
          ELSE r
    IN Force(body, R)

\* addPair, lines 272-278: the pair id is registered with the two shapes
\* and the pair is counted.
registerPair(R, shape1, shape2, pairId) ==
    LET body(r) ==
          IF r.abort # "" THEN r
          ELSE IF pairId \in r.mOverlappingPairs[shape1] THEN Abort(r, "addPair:273")
          ELSE IF pairId \in r.mOverlappingPairs[shape2] THEN Abort(r, "addPair:274")
          ELSE [r EXCEPT
                  !.mOverlappingPairs[shape1] = @ \cup {pairId},
                  !.mOverlappingPairs[shape2] = @ \cup {pairId},
                  !.mNbPairs = @ + 1]
    IN Force(body, R)

\* addPair, lines 251-270: the identity is computed and must be absent, the
\* slot at the insertion index is constructed and enters the lookup.
constructPairUnchecked(prepared, bp, shape1, shape2, isActive) ==
    LET pairId == ComputePairId(bp[shape1], bp[shape2])
        body(p) ==
          IF p[1].abort # "" THEN p[1]
          ELSE [p[1] EXCEPT
                  !.mPairIds[p[2]] = pairId,
                  !.mPairBroadPhaseId1[p[2]] = bp[shape1],
                  !.mPairBroadPhaseId2[p[2]] = bp[shape2],
                  !.mProxyShapes1[p[2]] = shape1,
                  !.mProxyShapes2[p[2]] = shape2,
                  !.mLastFrameCollisionInfos[p[2]] = EmptyInfos,
                  !.mNeedToTestOverlap[p[2]] = FALSE,
                  !.mIsActive[p[2]] = isActive,
                  !.mLive[p[2]] = TRUE,
                  !.mMapPairIdToPairIndex = MapAdd(@, pairId, p[2])]
    IN Force(body, prepared)

constructPairAlwaysActive(prepared, bp, shape1, shape2, isActive) ==
    LET pairId == ComputePairId(bp[shape1], bp[shape2])
        body(p) ==
          IF p[1].abort # "" THEN p[1]
          ELSE IF pairId \in DOMAIN p[1].mMapPairIdToPairIndex
               THEN Abort(p[1], "addPair:257")
          ELSE [p[1] EXCEPT
                  !.mPairIds[p[2]] = pairId,
                  !.mPairBroadPhaseId1[p[2]] = bp[shape1],
                  !.mPairBroadPhaseId2[p[2]] = bp[shape2],
                  !.mProxyShapes1[p[2]] = shape1,
                  !.mProxyShapes2[p[2]] = shape2,
                  !.mLastFrameCollisionInfos[p[2]] = EmptyInfos,
                  !.mNeedToTestOverlap[p[2]] = FALSE,
                  !.mIsActive[p[2]] = TRUE,
                  !.mLive[p[2]] = TRUE,
                  !.mMapPairIdToPairIndex = MapAdd(@, pairId, p[2])]
    IN Force(body, prepared)

constructPair(prepared, bp, shape1, shape2, isActive) ==
    LET pairId == ComputePairId(bp[shape1], bp[shape2])
        body(p) ==
          IF p[1].abort # "" THEN p[1]
          ELSE IF pairId \in DOMAIN p[1].mMapPairIdToPairIndex
               THEN Abort(p[1], "addPair:257")
          ELSE [p[1] EXCEPT
                  !.mPairIds[p[2]] = pairId,
                  !.mPairBroadPhaseId1[p[2]] = bp[shape1],
                  !.mPairBroadPhaseId2[p[2]] = bp[shape2],
                  !.mProxyShapes1[p[2]] = shape1,
                  !.mProxyShapes2[p[2]] = shape2,
                  !.mLastFrameCollisionInfos[p[2]] = EmptyInfos,
                  !.mNeedToTestOverlap[p[2]] = FALSE,
                  !.mIsActive[p[2]] = isActive,
                  !.mLive[p[2]] = TRUE,
                  !.mMapPairIdToPairIndex = MapAdd(@, pairId, p[2])]
    IN Force(body, prepared)

\* addPair(shape1, shape2, isActive); bp gives the broad-phase id of each
\* shape.  The pair id it returns is ComputePairId of the two ids.
addPair(R, bp, shape1, shape2, isActive) ==
    checkCounts(
      registerPair(
        constructPair(prepareAddPair(R, bothConvex(shape1, shape2)),
                      bp, shape1, shape2, isActive),
        shape1, shape2, ComputePairId(bp[shape1], bp[shape2])),
      "addPair:280", "addPair:281")

\* removePair, lines 144-148: the pair id leaves the reverse-lookup sets of
\* the two proxy shapes of the pair.
detachPairFirstOnly(R, index, pairId) ==
    LET body(r) ==
          IF r.abort # "" THEN r
          ELSE IF pairId \notin r.mOverlappingPairs[r.mProxyShapes1[index]]
               THEN Abort(r, "removePair:145")
          ELSE IF pairId \notin r.mOverlappingPairs[r.mProxyShapes2[index]]
               THEN Abort(r, "removePair:146")
          ELSE [r EXCEPT !.mOverlappingPairs[r.mProxyShapes1[index]] = @ \ {pairId}]
    IN Force(body, R)

detachPair(R, index, pairId) ==
    LET body(r) ==
          IF r.abort # "" THEN r
          ELSE IF pairId \notin r.mOverlappingPairs[r.mProxyShapes1[index]]
               THEN Abort(r, "removePair:145")
          ELSE IF pairId \notin r.mOverlappingPairs[r.mProxyShapes2[index]]
               THEN Abort(r, "removePair:146")
          ELSE [r EXCEPT
                  !.mOverlappingPairs[r.mProxyShapes1[index]] = @ \ {pairId},
                  !.mOverlappingPairs[r.mProxyShapes2[index]] = @ \ {pairId}]
    IN Force(body, R)

\* removePair, line 179: mConcavePairsStartIndex--
keepBoundary(R) == R
lowerBoundary(R) ==
    LET body(r) ==
          IF r.abort # "" THEN r
          ELSE [r EXCEPT !.mConcavePairsStartIndex = @ - 1]
    IN Force(body, R)

\* removePair, lines 172-179: the last convex vs concave pair, if there is
\* one, takes the last slot of the convex partition.
fillLastConvexSlotLeavesHole(R) ==
    LET body(r) == IF r.abort # "" THEN r ELSE lowerBoundary(r)
    IN Force(body, R)
fillLastConvexSlot(R) ==
    LET body(r) ==
          IF r.abort # "" THEN r
          ELSE lowerBoundary(
                 IF r.mConcavePairsStartIndex # r.mNbPairs
                 THEN movePairToIndex(r, r.mNbPairs - 1, r.mConcavePairsStartIndex - 1)
                 ELSE r)
    IN Force(body, R)

\* removePair, lines 153-180: the hole left at index is filled so that the
\* two partitions stay packed.
fillHole(R, index) ==
    LET body(r) ==
          IF r.abort # "" THEN r
          ELSE IF index >= r.mConcavePairsStartIndex
          THEN IF index # r.mNbPairs - 1
               THEN movePairToIndex(r, r.mNbPairs - 1, index)
               ELSE r
          ELSE fillLastConvexSlot(
                 IF index # r.mConcavePairsStartIndex - 1
                 THEN movePairToIndex(r, r.mConcavePairsStartIndex - 1, index)
                 ELSE r)
    IN Force(body, R)

\* removePair, line 182: mNbPairs--
countRemoval(R) ==
    LET body(r) == IF r.abort # "" THEN r ELSE [r EXCEPT !.mNbPairs = @ - 1]
    IN Force(body, R)

\* removePair(pairId).  The last-frame entries of the pair are released
\* (lines 134-142), then its map is destroyed by destroyPair.
removePairCountsFirst(R, pairId) ==
    LET body(r) ==
          IF r.abort # "" THEN r
          ELSE IF pairId \notin DOMAIN r.mMapPairIdToPairIndex
               THEN Abort(countRemoval(r), "removePair:125")
          ELSE IF ~(r.mMapPairIdToPairIndex[pairId] < r.mNbPairs)
               THEN Abort(r, "removePair:128")
          ELSE checkCounts(
                 countRemoval(
                   fillHole(
                     destroyPair(
                       detachPair(
                         releaseInfos(
                           r, r.mLastFrameCollisionInfos[r.mMapPairIdToPairIndex[pairId]],
                           DOMAIN r.mLastFrameCollisionInfos[r.mMapPairIdToPairIndex[pairId]]),
                         r.mMapPairIdToPairIndex[pairId], pairId),
                       r.mMapPairIdToPairIndex[pairId]),
                     r.mMapPairIdToPairIndex[pairId])),
                 "removePair:184", "removePair:185")
    IN Force(body, R)

removePair(R, pairId) ==
    LET body(r) ==
          IF r.abort # "" THEN r
          ELSE IF pairId \notin DOMAIN r.mMapPairIdToPairIndex
               THEN Abort(r, "removePair:125")
          ELSE IF ~(r.mMapPairIdToPairIndex[pairId] < r.mNbPairs)
               THEN Abort(r, "removePair:128")
          ELSE checkCounts(
                 countRemoval(
                   fillHole(
                     destroyPair(
                       detachPair(
                         releaseInfos(
                           r, r.mLastFrameCollisionInfos[r.mMapPairIdToPairIndex[pairId]],
                           DOMAIN r.mLastFrameCollisionInfos[r.mMapPairIdToPairIndex[pairId]]),
                         r.mMapPairIdToPairIndex[pairId], pairId),
                       r.mMapPairIdToPairIndex[pairId]),
                     r.mMapPairIdToPairIndex[pairId])),
                 "removePair:184", "removePair:185")
    IN Force(body, R)

\* addLastFrameInfoIfNecessary(pairId, shapeId1, shapeId2)
addLastFrameInfoKeepsObsolete(R, pairId, shapeId1, shapeId2) ==
    LET shapeIdPair == << shapeId1, shapeId2 >>
        body(r) ==
          IF r.abort # "" THEN r
          ELSE IF pairId \notin DOMAIN r.mMapPairIdToPairIndex
               THEN Abort(r, "addLastFrameInfoIfNecessary:368")
          ELSE IF ~(r.mMapPairIdToPairIndex[pairId] < r.mNbPairs)
               THEN Abort(r, "addLastFrameInfoIfNecessary:371")
          ELSE IF shapeIdPair \notin
                    DOMAIN r.mLastFrameCollisionInfos[r.mMapPairIdToPairIndex[pairId]]
               THEN [r EXCEPT !.mLastFrameCollisionInfos[r.mMapPairIdToPairIndex[pairId]] =
                        MapAdd(@, shapeIdPair,
                               NewLastFrameCollisionInfo(allocateInfo(r.mAllocatedInfos))),
                      !.mAllocatedInfos = @ \cup {allocateInfo(r.mAllocatedInfos)}]
               ELSE [r EXCEPT !.mLastFrameCollisionInfos[r.mMapPairIdToPairIndex[pairId]]
                                 [shapeIdPair].sweeps = 0]
    IN Force(body, R)

addLastFrameInfoAlone(R, pairId, shapeId1, shapeId2) ==
    LET shapeIdPair == << shapeId1, shapeId2 >>
        body(r) ==
          IF r.abort # "" THEN r
          ELSE IF pairId \notin DOMAIN r.mMapPairIdToPairIndex
               THEN Abort(r, "addLastFrameInfoIfNecessary:368")
          ELSE IF ~(r.mMapPairIdToPairIndex[pairId] < r.mNbPairs)
               THEN Abort(r, "addLastFrameInfoIfNecessary:371")
          ELSE IF shapeIdPair \notin
                    DOMAIN r.mLastFrameCollisionInfos[r.mMapPairIdToPairIndex[pairId]]
               THEN [r EXCEPT !.mLastFrameCollisionInfos[r.mMapPairIdToPairIndex[pairId]] =
                        MapAdd(EmptyInfos, shapeIdPair,
                               NewLastFrameCollisionInfo(allocateInfo(r.mAllocatedInfos))),
                      !.mAllocatedInfos = @ \cup {allocateInfo(r.mAllocatedInfos)}]
               ELSE [r EXCEPT !.mLastFrameCollisionInfos[r.mMapPairIdToPairIndex[pairId]]
                                 [shapeIdPair] = [@ EXCEPT !.isObsolete = FALSE, !.sweeps = 0]]
    IN Force(body, R)

addLastFrameInfoIfNecessary(R, pairId, shapeId1, shapeId2) ==
    LET shapeIdPair == << shapeId1, shapeId2 >>
        body(r) ==
          IF r.abort # "" THEN r
          ELSE IF pairId \notin DOMAIN r.mMapPairIdToPairIndex
               THEN Abort(r, "addLastFrameInfoIfNecessary:368")
          ELSE IF ~(r.mMapPairIdToPairIndex[pairId] < r.mNbPairs)
               THEN Abort(r, "addLastFrameInfoIfNecessary:371")
          ELSE IF shapeIdPair \notin
                    DOMAIN r.mLastFrameCollisionInfos[r.mMapPairIdToPairIndex[pairId]]
               THEN [r EXCEPT !.mLastFrameCollisionInfos[r.mMapPairIdToPairIndex[pairId]] =
                        MapAdd(@, shapeIdPair,
                               NewLastFrameCollisionInfo(allocateInfo(r.mAllocatedInfos))),
                      !.mAllocatedInfos = @ \cup {allocateInfo(r.mAllocatedInfos)}]
               ELSE [r EXCEPT !.mLastFrameCollisionInfos[r.mMapPairIdToPairIndex[pairId]]
                                 [shapeIdPair] = [@ EXCEPT !.isObsolete = FALSE, !.sweeps = 0]]
    IN Force(body, R)

\* The sweep of one pair's cache (lines 407-425): obsolete entries are
\* deleted, the others are marked obsolete.
SweepInfosNoMark(infos) ==
    [k \in {q \in DOMAIN infos : ~infos[q].isObsolete} |->
        [infos[k] EXCEPT !.isObsolete = FALSE, !.sweeps = @ + 1]]

SweepInfos(infos) ==
    [k \in {q \in DOMAIN infos : ~infos[q].isObsolete} |->
        [infos[k] EXCEPT !.isObsolete = TRUE, !.sweeps = @ + 1]]

\* The keys of the obsolete entries of a cache.
obsoleteKeys(infos) == { k \in DOMAIN infos : infos[k].isObsolete }

\* clearObsoleteLastFrameCollisionInfos, lines 419 and 425: the cache of
\* the pair at index i after the sweep.
sweepPair(R, i) ==
    LET body(r) ==
          IF r.abort # "" THEN r
          ELSE [r EXCEPT !.mLastFrameCollisionInfos[i] = SweepInfos(@)]
    IN Force(body, R)

\* clearObsoleteLastFrameCollisionInfos, lines 405-425, for the pairs from
\* index i on: the obsolete entries of the pair are released and leave its
\* cache, the others are marked.
RECURSIVE clearObsoleteFrom(_, _)
clearObsoleteFrom(R, i) ==
    LET body(r) ==
          IF r.abort # "" \/ ~(i < r.mNbPairs) THEN r
          ELSE clearObsoleteFrom(
                 sweepPair(
                   releaseInfos(r, r.mLastFrameCollisionInfos[i],
                                obsoleteKeys(r.mLastFrameCollisionInfos[i])),
                   i),
                 i + 1)
    IN Force(body, R)

\* clearObsoleteLastFrameCollisionInfos()
clearObsoleteLastFrameCollisionInfos(R) == clearObsoleteFrom(R, 0)

\* ------------------------------------------------------------ construction
\* OverlappingPairs(): no pair, no buffer, then allocate(INIT_NB_ALLOCATED_PAIRS).
NoArray == [i \in {} |-> 0]
Constructed ==
    allocate([ mNbPairs |-> 0,
               mConcavePairsStartIndex |-> 0,
               mNbAllocatedPairs |-> 0,
               mPairIds |-> NoArray,
               mPairBroadPhaseId1 |-> NoArray,
               mPairBroadPhaseId2 |-> NoArray,
               mProxyShapes1 |-> NoArray,
               mProxyShapes2 |-> NoArray,
               mLastFrameCollisionInfos |-> NoArray,
               mNeedToTestOverlap |-> NoArray,
               mIsActive |-> NoArray,
               mLive |-> NoArray,
               mMapPairIdToPairIndex |-> NoArray,
               mOverlappingPairs |-> [s \in Shapes |-> {}],
               mAllocatedInfos |-> {},
               abort |-> "" ],
             INIT_NB_ALLOCATED_PAIRS)

\* The record of the last call.  Only addPair records its arguments, its
\* result and the counts before the call; roundTrip is set by a removePair
\* that removes the pair the call just before it added.
Call(op) ==
    [op |-> op, shape1 |-> 0, shape2 |-> 0, pairId |-> -1,
     preNb |-> 0, preStart |-> 0, roundTrip |-> FALSE]
AddPairCall(shape1, shape2, pairId) ==
    [op |-> "addPair", shape1 |-> shape1, shape2 |-> shape2, pairId |-> pairId,
     preNb |-> mNbPairs, preStart |-> mConcavePairsStartIndex, roundTrip |-> FALSE]

\* Every identity a pair of two of the shapes can have.
PairIdUniverse ==
    { ComputePairId(mBroadPhaseId[ab[1]], mBroadPhaseId[ab[2]]) :
        ab \in { q \in Shapes \X Shapes : q[1] # q[2] } }

\* Number of last-frame entries held by the caches.
NbInfos(infos) ==
    Cardinality(UNION { { << i, k >> : k \in DOMAIN infos[i] } : i \in DOMAIN infos })

\* The bodies of the shapes.
Bodies == { BodyOf(s) : s \in Shapes }
\* No computeIsPairActive() was called yet.
NoActiveCall == [called |-> FALSE, shape1 |-> 0, shape2 |-> 0, value |-> FALSE]
\* Every shape has a proxy-shape component and every component is enabled.
AllComponentsEnabled ==
    [mProxyShapesEntities |-> << 1, 2, 3, 4 >>, mNbEnabledComponents |-> 4]
\* Outside the activity scenario every body is an enabled dynamic rigid
\* body and no pair of bodies is excluded.
DefaultBodies ==
    /\ mProxyShapesComponents = AllComponentsEnabled
    /\ mIsEntityDisabled = [b \in Bodies |-> FALSE]
    /\ mBodyType = [b \in Bodies |-> "DYNAMIC"]
    /\ mNoCollisionPairs = {}
    /\ isPairActive = NoActiveCall

\* No query of the broad phase was made yet.  tested is the shape handed
\* to the precise ray test, 0 when none was.
NoQuery ==
    lastQuery = [op |-> "none", shape1 |-> 0, shape2 |-> 0, overlapping |-> FALSE,
                 nodeId |-> -1, mask |-> 0, tested |-> 0, hitFraction |-> -1]

\* The registry scenario: the four shapes are tracked, with these ids.
Init ==
    /\ SetRegInit(Constructed)
    /\ mBroadPhaseId = RegistryBroadPhaseIds
    /\ mNodes = NoArray
    /\ mMovedShapes = {}
    /\ notified = << >>
    /\ movedAtStart = {}
    /\ lastCall = Call("none")
    /\ DefaultBodies
    /\ NoQuery

\* ------------------------------------------------------------------ actions
AddPair(shape1, shape2, isActive) ==
    /\ abort = ""
    /\ shape1 # shape2
    /\ mNbPairs < MaxPairs
    /\ SetReg(addPair(Reg, mBroadPhaseId, shape1, shape2, isActive))
    /\ lastCall' = AddPairCall(shape1, shape2,
                               ComputePairId(mBroadPhaseId[shape1], mBroadPhaseId[shape2]))
    /\ UNCHANGED << bpVars, bodyVars, queryVars >>

RemovePair(pairId) ==
    /\ abort = ""
    /\ SetReg(removePair(Reg, pairId))
    /\ lastCall' = [Call("removePair") EXCEPT
                      !.roundTrip = (lastCall.op = "addPair" /\ lastCall.pairId = pairId)]
    /\ UNCHANGED << bpVars, bodyVars, queryVars >>

AddLastFrameInfoIfNecessary(pairId, shapeId1, shapeId2) ==
    /\ abort = ""
    /\ \E r \in { addLastFrameInfoIfNecessary(Reg, pairId, shapeId1, shapeId2) } :
          /\ NbInfos(r.mLastFrameCollisionInfos) <= MaxInfos
          /\ SetReg(r)
    /\ lastCall' = Call("addLastFrameInfoIfNecessary")
    /\ UNCHANGED << bpVars, bodyVars, queryVars >>

ClearObsoleteLastFrameCollisionInfos ==
    /\ abort = ""
    /\ SetReg(clearObsoleteLastFrameCollisionInfos(Reg))
    /\ lastCall' = Call("clearObsoleteLastFrameCollisionInfos")
    /\ UNCHANGED << bpVars, bodyVars, queryVars >>

\* The registry under every addPair and removePair.
Next ==
    \/ \E shape1 \in Shapes, shape2 \in Shapes, isActive \in BOOLEAN :
          AddPair(shape1, shape2, isActive)
    \/ \E pairId \in PairIdUniverse : RemovePair(pairId)

Spec == Init /\ [][Next]_vars

\* The registry with its last-frame caches; the pairs are added active and
\* with their shapes in increasing order.
NextCache ==
    \/ \E shape1 \in Shapes, shape2 \in Shapes :
          shape1 < shape2 /\ AddPair(shape1, shape2, TRUE)
    \/ \E pairId \in PairIdUniverse : RemovePair(pairId)
    \/ \E pairId \in PairIdUniverse, shapeId1 \in FeatureIds, shapeId2 \in FeatureIds :
          /\ shapeId1 # shapeId2
          /\ AddLastFrameInfoIfNecessary(pairId, shapeId1, shapeId2)
    \/ ClearObsoleteLastFrameCollisionInfos

SpecCache == Init /\ [][NextCache]_vars

\* ------------------------------------------------------------- broad phase
\* The shapes of the broad-phase scenario: 1 and 2 belong to the same body.
BroadPhaseShapes == {1, 2, 3}
\* One-dimensional bounding boxes, one unit long, at these positions.
Positions == {0, 4}
AABBAt(p) == [min |-> p, max |-> p + 1]
\* Linear displacements handed to a refresh.
Displacements == {0, 2}
\* The shapes the scenario detaches from their body.
RemovableShapes == {3}
\* Node ids of the leaves of the tree.
NodeIds == 0 .. (Cardinality(BroadPhaseShapes) - 1)

\* AABB::testCollision and AABB::contains
testCollision(aabb1, aabb2) == ~(aabb1.max < aabb2.min \/ aabb2.max < aabb1.min)
contains(aabb1, aabb2) == aabb1.min <= aabb2.min /\ aabb2.max <= aabb1.max

\* DynamicAABBTree: the fat AABB of a new or reinserted leaf.
fatAABB(aabb, displacement) ==
    [min |-> aabb.min - DYNAMIC_TREE_AABB_GAP + Min(displacement, 0),
     max |-> aabb.max + DYNAMIC_TREE_AABB_GAP + Max(displacement, 0)]

\* DynamicAABBTree::addObject: << nodes, node id >>; the tree hands out a
\* free node id.
addObject(nodes, aabb, data) ==
    LET body(nodeId) ==
          << MapAdd(nodes, nodeId, [aabb |-> fatAABB(aabb, 0), data |-> data]), nodeId >>
    IN Force(body, CHOOSE n \in NodeIds \ DOMAIN nodes :
                      \A m \in NodeIds \ DOMAIN nodes : n <= m)

\* DynamicAABBTree::removeObject
removeObject(nodes, nodeId) == MapRemove(nodes, nodeId)

\* DynamicAABBTree::updateObject: << nodes, reinserted >>
updateObject(nodes, nodeId, aabb, displacement) ==
    IF contains(nodes[nodeId].aabb, aabb) THEN << nodes, FALSE >>
    ELSE << [nodes EXCEPT ![nodeId].aabb = fatAABB(aabb, displacement)], TRUE >>

\* A set as the sequence of its elements in increasing order.
RECURSIVE SortedSeq(_)
SortedSeq(S) ==
    IF S = {} THEN << >>
    ELSE LET body(least) == << least >> \o SortedSeq(S \ {least})
         IN Force(body, CHOOSE x \in S : \A y \in S : x <= y)

\* DynamicAABBTree::reportAllShapesOverlappingWithAABB with an
\* AABBOverlapCallback: every leaf whose fat AABB intersects aabb is
\* appended to the list (notifyOverlappingNode, line 263).
reportAllShapesOverlappingWithAABB(nodes, aabb, overlappingNodes) ==
    overlappingNodes
      \o SortedSeq({ n \in DOMAIN nodes : testCollision(nodes[n].aabb, aabb) })

\* CollisionDetection::broadPhaseNotifyOverlappingPair: a pair whose
\* identity is already in the registry is not added again.  RN is
\* << registry, pairs notified so far >>.
broadPhaseNotifyOverlappingPair(RN, bp, shape1, shape2) ==
    LET body(rn) ==
          IF rn[1].abort # "" THEN rn
          ELSE IF ComputePairId(bp[shape1], bp[shape2]) \in DOMAIN rn[1].mMapPairIdToPairIndex
               THEN << rn[1], Append(rn[2], << shape1, shape2 >>) >>
          ELSE << addPair(rn[1], bp, shape1, shape2, TRUE),
                  Append(rn[2], << shape1, shape2 >>) >>
    IN Force(body, RN)

\* addOverlappingNodes, lines 246-254: a node of the list gives a pair
\* unless it is the reference node or its shape has the body of the
\* reference shape.
isCandidateAbove(nodes, referenceNodeId, nodeId) ==
    /\ referenceNodeId < nodeId
    /\ BodyOf(nodes[referenceNodeId].data) # BodyOf(nodes[nodeId].data)
isCandidateAnyBody(nodes, referenceNodeId, nodeId) ==
    referenceNodeId # nodeId
isCandidate(nodes, referenceNodeId, nodeId) ==
    /\ referenceNodeId # nodeId
    /\ BodyOf(nodes[referenceNodeId].data) # BodyOf(nodes[nodeId].data)

\* addOverlappingNodes(referenceNodeId, overlappingNodes), from element i on
RECURSIVE addOverlappingNodesFrom(_, _, _, _, _, _)
addOverlappingNodesFrom(RN, bp, nodes, referenceNodeId, overlappingNodes, i) ==
    LET body(rn) ==
          IF i > Len(overlappingNodes) THEN rn
          ELSE addOverlappingNodesFrom(
                 IF isCandidate(nodes, referenceNodeId, overlappingNodes[i])
                 THEN broadPhaseNotifyOverlappingPair(
                        rn, bp, nodes[referenceNodeId].data,
                        nodes[overlappingNodes[i]].data)
                 ELSE rn,
                 bp, nodes, referenceNodeId, overlappingNodes, i + 1)
    IN Force(body, RN)

addOverlappingNodes(RN, bp, nodes, referenceNodeId, overlappingNodes) ==
    addOverlappingNodesFrom(RN, bp, nodes, referenceNodeId, overlappingNodes, 1)

\* computeOverlappingPairs, line 230: overlappingNodes.clear()
keepList(overlappingNodes) == overlappingNodes
clearList(overlappingNodes) == << >>

\* computeOverlappingPairs, lines 221-230: the overlapping nodes of the
\* moved shape are collected in the list, the pairs are notified and the
\* list is cleared.  << RN, list >>
notifyFromList(RN, bp, nodes, shapeID, reported) ==
    LET body(list) ==
          << addOverlappingNodes(RN, bp, nodes, shapeID, list), clearList(list) >>
    IN Force(body, reported)

\* computeOverlappingPairs, lines 211-231: one iteration of the loop over
\* the moved shapes.  st is << RN, overlappingNodes >>, overlappingNodes
\* being the list declared before the loop.
processMovedShape(st, bp, nodes, shapeID) ==
    LET body(s) ==
          IF shapeID = -1 THEN s
          ELSE IF shapeID \notin DOMAIN nodes
          THEN << << Abort(s[1][1], "computeOverlappingPairs:read of a removed node"),
                     s[1][2] >>, s[2] >>
          ELSE notifyFromList(
                 s[1], bp, nodes, shapeID,
                 reportAllShapesOverlappingWithAABB(nodes, nodes[shapeID].aabb, s[2]))
    IN Force(body, st)

\* The loop over the moved shapes in the iteration order movedSeq, from
\* element k on.
RECURSIVE movedShapesLoopAll(_, _, _, _, _)
movedShapesLoopAll(st, bp, nodes, movedSeq, k) ==
    LET body(s) ==
          IF k > Len(SortedSeq(DOMAIN nodes)) \/ s[1][1].abort # "" THEN s
          ELSE movedShapesLoopAll(
                 processMovedShape(s, bp, nodes, SortedSeq(DOMAIN nodes)[k]),
                 bp, nodes, movedSeq, k + 1)
    IN Force(body, st)

RECURSIVE movedShapesLoop(_, _, _, _, _)
movedShapesLoop(st, bp, nodes, movedSeq, k) ==
    LET body(s) ==
          IF k > Len(movedSeq) \/ s[1][1].abort # "" THEN s
          ELSE movedShapesLoop(processMovedShape(s, bp, nodes, movedSeq[k]),
                               bp, nodes, movedSeq, k + 1)
    IN Force(body, st)

\* The orders in which a set can be iterated.
Orders(S) ==
    { q \in [1 .. Cardinality(S) -> S] : \A i, j \in DOMAIN q : q[i] = q[j] => i = j }

\* The broad-phase scenario: an empty registry, no shape tracked.
InitBP ==
    /\ SetRegInit(Constructed)
    /\ mBroadPhaseId = [s \in Shapes |-> -1]
    /\ mNodes = NoArray
    /\ mMovedShapes = {}
    /\ notified = << >>
    /\ movedAtStart = {}
    /\ lastCall = Call("none")
    /\ DefaultBodies
    /\ NoQuery

registryArrays == << mNbPairs, mConcavePairsStartIndex, mNbAllocatedPairs, mPairIds,
                     mPairBroadPhaseId1, mPairBroadPhaseId2, mProxyShapes1,
                     mProxyShapes2, mLastFrameCollisionInfos, mNeedToTestOverlap,
                     mIsActive, mLive, mMapPairIdToPairIndex, mOverlappingPairs,
                     mAllocatedInfos >>

\* addProxyCollisionShape, line 92: addMovedCollisionShape(broadPhaseId)
AddProxyCollisionShapeUnmarked(proxyShape, aabb) ==
    /\ abort = ""
    /\ IF mBroadPhaseId[proxyShape] # -1
       THEN /\ abort' = "addProxyCollisionShape:82"
            /\ UNCHANGED << mBroadPhaseId, mNodes, mMovedShapes >>
       ELSE \E added \in { addObject(mNodes, aabb, proxyShape) } :
               /\ mNodes' = added[1]
               /\ mBroadPhaseId' = [mBroadPhaseId EXCEPT ![proxyShape] = added[2]]
               /\ mMovedShapes' = mMovedShapes
               /\ abort' = abort
    /\ notified' = << >>
    /\ movedAtStart' = {}
    /\ lastCall' = Call("addProxyCollisionShape")
    /\ UNCHANGED << registryArrays, bodyVars, queryVars >>

\* addProxyCollisionShape(proxyShape, aabb)
AddProxyCollisionShape(proxyShape, aabb) ==
    /\ abort = ""
    /\ IF mBroadPhaseId[proxyShape] # -1
       THEN /\ abort' = "addProxyCollisionShape:82"
            /\ UNCHANGED << mBroadPhaseId, mNodes, mMovedShapes >>
       ELSE \E added \in { addObject(mNodes, aabb, proxyShape) } :
               /\ mNodes' = added[1]
               /\ mBroadPhaseId' = [mBroadPhaseId EXCEPT ![proxyShape] = added[2]]
               /\ mMovedShapes' = mMovedShapes \cup {added[2]}
               /\ abort' = abort
    /\ notified' = << >>
    /\ movedAtStart' = {}
    /\ lastCall' = Call("addProxyCollisionShape")
    /\ UNCHANGED << registryArrays, bodyVars, queryVars >>

\* removeProxyCollisionShape, line 109: removeMovedCollisionShape(broadPhaseID)
RemoveProxyCollisionShapeKeepsMoved(proxyShape) ==
    /\ abort = ""
    /\ IF mBroadPhaseId[proxyShape] = -1
       THEN /\ abort' = "removeProxyCollisionShape:98"
            /\ UNCHANGED << mBroadPhaseId, mNodes, mMovedShapes >>
       ELSE \E broadPhaseID \in { mBroadPhaseId[proxyShape] } :
               /\ mBroadPhaseId' = [mBroadPhaseId EXCEPT ![proxyShape] = -1]
               /\ mNodes' = removeObject(mNodes, broadPhaseID)
               /\ mMovedShapes' = mMovedShapes
               /\ abort' = abort
    /\ notified' = << >>
    /\ movedAtStart' = {}
    /\ lastCall' = Call("removeProxyCollisionShape")
    /\ UNCHANGED << registryArrays, bodyVars, queryVars >>

\* removeProxyCollisionShape, lines 96-110: the registry and the
\* reverse-lookup sets of the shapes are not written.
RemoveProxyCollisionShapeClearsLookup(proxyShape) ==
    /\ abort = ""
    /\ IF mBroadPhaseId[proxyShape] = -1
       THEN /\ abort' = "removeProxyCollisionShape:98"
            /\ UNCHANGED << mBroadPhaseId, mNodes, mMovedShapes, mOverlappingPairs >>
       ELSE \E broadPhaseID \in { mBroadPhaseId[proxyShape] } :
               /\ mBroadPhaseId' = [mBroadPhaseId EXCEPT ![proxyShape] = -1]
               /\ mNodes' = removeObject(mNodes, broadPhaseID)
               /\ mMovedShapes' = mMovedShapes \ {broadPhaseID}
               /\ mOverlappingPairs' = [mOverlappingPairs EXCEPT ![proxyShape] = {}]
               /\ abort' = abort
    /\ notified' = << >>
    /\ movedAtStart' = {}
    /\ lastCall' = Call("removeProxyCollisionShape")
    /\ UNCHANGED << mNbPairs, mConcavePairsStartIndex, mNbAllocatedPairs, mPairIds,
                    mPairBroadPhaseId1, mPairBroadPhaseId2, mProxyShapes1,
                    mProxyShapes2, mLastFrameCollisionInfos, mNeedToTestOverlap,
                    mIsActive, mLive, mMapPairIdToPairIndex, mAllocatedInfos,
                    bodyVars, queryVars >>

\* removeProxyCollisionShape, lines 100 and 109: the id removed from the
\* moved set is the one read before the shape got the id -1.
RemoveProxyCollisionShapeUnmarksNewId(proxyShape) ==
    /\ abort = ""
    /\ IF mBroadPhaseId[proxyShape] = -1
       THEN /\ abort' = "removeProxyCollisionShape:98"
            /\ UNCHANGED << mBroadPhaseId, mNodes, mMovedShapes >>
       ELSE \E broadPhaseID \in { mBroadPhaseId[proxyShape] } :
               /\ mBroadPhaseId' = [mBroadPhaseId EXCEPT ![proxyShape] = -1]
               /\ mNodes' = removeObject(mNodes, broadPhaseID)
               /\ mMovedShapes' = mMovedShapes \ {mBroadPhaseId'[proxyShape]}
               /\ abort' = abort
    /\ notified' = << >>
    /\ movedAtStart' = {}
    /\ lastCall' = Call("removeProxyCollisionShape")
    /\ UNCHANGED << registryArrays, bodyVars, queryVars >>

\* removeProxyCollisionShape(proxyShape)
RemoveProxyCollisionShape(proxyShape) ==
    /\ abort = ""
    /\ IF mBroadPhaseId[proxyShape] = -1
       THEN /\ abort' = "removeProxyCollisionShape:98"
            /\ UNCHANGED << mBroadPhaseId, mNodes, mMovedShapes >>
       ELSE \E broadPhaseID \in { mBroadPhaseId[proxyShape] } :
               /\ mBroadPhaseId' = [mBroadPhaseId EXCEPT ![proxyShape] = -1]
               /\ mNodes' = removeObject(mNodes, broadPhaseID)
               /\ mMovedShapes' = mMovedShapes \ {broadPhaseID}
               /\ abort' = abort
    /\ notified' = << >>
    /\ movedAtStart' = {}
    /\ lastCall' = Call("removeProxyCollisionShape")
    /\ UNCHANGED << registryArrays, bodyVars, queryVars >>

\* updateProxyShapeInternal, lines 141-145: the node is marked moved when
\* it was reinserted.
UpdateProxyShapeInternalAlways(proxyShape, aabb, displacement) ==
    /\ abort = ""
    /\ mBroadPhaseId[proxyShape] # -1
    /\ \E updated \in { updateObject(mNodes, mBroadPhaseId[proxyShape], aabb, displacement) } :
          /\ mNodes' = updated[1]
          /\ mMovedShapes' = mMovedShapes \cup {mBroadPhaseId[proxyShape]}
    /\ notified' = << >>
    /\ movedAtStart' = {}
    /\ lastCall' = Call("updateProxyShapeInternal")
    /\ UNCHANGED << mBroadPhaseId, regVars, bodyVars, queryVars >>

\* updateProxyShapeInternal(broadPhaseId, aabb, displacement), called for a
\* tracked shape (line 171)
UpdateProxyShapeInternal(proxyShape, aabb, displacement) ==
    /\ abort = ""
    /\ mBroadPhaseId[proxyShape] # -1
    /\ \E updated \in { updateObject(mNodes, mBroadPhaseId[proxyShape], aabb, displacement) } :
          /\ mNodes' = updated[1]
          /\ mMovedShapes' = IF updated[2]
                             THEN mMovedShapes \cup {mBroadPhaseId[proxyShape]}
                             ELSE mMovedShapes
    /\ notified' = << >>
    /\ movedAtStart' = {}
    /\ lastCall' = Call("updateProxyShapeInternal")
    /\ UNCHANGED << mBroadPhaseId, regVars, bodyVars, queryVars >>

\* computeOverlappingPairs(), line 235: mMovedShapes.clear()
ComputeOverlappingPairsKeepsMoved ==
    /\ abort = ""
    /\ \E movedSeq \in Orders(mMovedShapes) :
         \E st \in { movedShapesLoop(<< << Reg, << >> >>, << >> >>, mBroadPhaseId,
                                     mNodes, movedSeq, 1) } :
            /\ SetReg(st[1][1])
            /\ notified' = st[1][2]
    /\ mMovedShapes' = mMovedShapes
    /\ movedAtStart' = mMovedShapes
    /\ lastCall' = Call("computeOverlappingPairs")
    /\ UNCHANGED << mBroadPhaseId, mNodes, bodyVars, queryVars >>

\* computeOverlappingPairs()
ComputeOverlappingPairs ==
    /\ abort = ""
    /\ \E movedSeq \in Orders(mMovedShapes) :
         \E st \in { movedShapesLoop(<< << Reg, << >> >>, << >> >>, mBroadPhaseId,
                                     mNodes, movedSeq, 1) } :
            /\ SetReg(st[1][1])
            /\ notified' = st[1][2]
    /\ mMovedShapes' = {}
    /\ movedAtStart' = mMovedShapes
    /\ lastCall' = Call("computeOverlappingPairs")
    /\ UNCHANGED << mBroadPhaseId, mNodes, bodyVars, queryVars >>

NextBP ==
    \/ \E proxyShape \in BroadPhaseShapes, p \in Positions :
          AddProxyCollisionShape(proxyShape, AABBAt(p))
    \/ \E proxyShape \in RemovableShapes : RemoveProxyCollisionShape(proxyShape)
    \/ \E proxyShape \in BroadPhaseShapes, p \in Positions, displacement \in Displacements :
          UpdateProxyShapeInternal(proxyShape, AABBAt(p), displacement)
    \/ ComputeOverlappingPairs

SpecBP == InitBP /\ [][NextBP]_vars

\* -------------------------------------------------------------- properties
Slots == 0 .. (mNbAllocatedPairs - 1)
PairSlots == 0 .. (mNbPairs - 1)
Completed == abort = ""

\* C1 - Partition invariant: after every completed addPair or removePair,
\* every index below mConcavePairsStartIndex holds a convex vs convex pair,
\* every index from mConcavePairsStartIndex to mNbPairs - 1 holds a convex vs
\* concave pair, every index below mNbPairs holds a constructed pair and no
\* two of them hold the same pair.
PartitionInvariant ==
    Completed =>
      /\ \A i \in Slots : mLive[i] <=> i < mNbPairs
      /\ \A i \in PairSlots :
            /\ i < mConcavePairsStartIndex
                  => isConvex(mProxyShapes1[i]) /\ isConvex(mProxyShapes2[i])
            /\ i >= mConcavePairsStartIndex
                  => isConvex(mProxyShapes1[i]) # isConvex(mProxyShapes2[i])
      /\ \A i \in PairSlots, j \in PairSlots : mPairIds[i] = mPairIds[j] => i = j

PartitionWitness ==
    /\ Completed
    /\ lastCall.op = "removePair"
    /\ mConcavePairsStartIndex >= 2
    /\ mNbPairs > mConcavePairsStartIndex

\* C2 - Registry/index consistency: the two assertions that end addPair and
\* removePair never fail, so after every completed call
\* mConcavePairsStartIndex <= mNbPairs and mNbPairs is the size of
\* mMapPairIdToPairIndex.
RegistryIndexConsistency ==
    /\ abort \notin {"addPair:280", "addPair:281", "removePair:184", "removePair:185"}
    /\ Completed =>
          /\ mConcavePairsStartIndex <= mNbPairs
          /\ mNbPairs = Cardinality(DOMAIN mMapPairIdToPairIndex)

RegistryIndexWitness ==
    /\ Completed
    /\ lastCall.op = "removePair"
    /\ mNbPairs >= 2
    /\ mConcavePairsStartIndex = mNbPairs

\* C7 - Identity symmetry: the identity addPair computes for the ids (a, b)
\* is the one it computes for (b, a), and an addPair(B, A) while the pair
\* added by addPair(A, B) is in the registry stops at the assertion that the
\* identity is absent.
SymmetricIds ==
    \A a \in Shapes, b \in Shapes :
       a # b => ComputePairId(mBroadPhaseId[a], mBroadPhaseId[b])
                  = ComputePairId(mBroadPhaseId[b], mBroadPhaseId[a])
ReversedAddFails ==
    ( /\ abort = ""
      /\ lastCall'.op = "addPair"
      /\ \E i \in PairSlots : /\ mProxyShapes1[i] = lastCall'.shape2
                              /\ mProxyShapes2[i] = lastCall'.shape1 )
    => abort' = "addPair:257"
IdentitySymmetry == []SymmetricIds /\ [][ReversedAddFails]_vars

IdentitySymmetryWitness ==
    /\ abort = "addPair:257"
    /\ lastCall.op = "addPair"
    /\ \E i \in Slots : /\ mLive[i]
                        /\ mProxyShapes1[i] = lastCall.shape2
                        /\ mProxyShapes2[i] = lastCall.shape1
                        /\ mPairIds[i] = lastCall.pairId

\* C8 - Round trip: a removePair of the identity returned by the addPair
\* just before it completes and gives mNbPairs and mConcavePairsStartIndex
\* the values they had before that addPair.
RoundTripStep ==
    ( /\ lastCall.op = "addPair"
      /\ Completed
      /\ lastCall'.op = "removePair"
      /\ lastCall'.roundTrip )
    => /\ abort' = ""
       /\ mNbPairs' = lastCall.preNb
       /\ mConcavePairsStartIndex' = lastCall.preStart
RoundTrip == [][RoundTripStep]_vars

RoundTripWitness ==
    /\ Completed
    /\ lastCall.op = "removePair"
    /\ lastCall.roundTrip
    /\ mConcavePairsStartIndex >= 1
    /\ mNbPairs > mConcavePairsStartIndex

\* C9 - Growth: mNbPairs never exceeds mNbAllocatedPairs; the capacity
\* changes only in an addPair called with mNbPairs = mNbAllocatedPairs, and
\* then doubles; the reallocation keeps every pair at its index with its
\* fields, and the lookup maps the identity of every pair to its index.
AllocateKeepsPairs ==
    (Completed /\ mNbPairs = mNbAllocatedPairs) =>
       \A G \in { allocate(Reg, mNbAllocatedPairs * 2) } :
          /\ G.abort = ""
          /\ G.mNbAllocatedPairs = mNbAllocatedPairs * 2
          /\ G.mNbPairs = mNbPairs
          /\ G.mConcavePairsStartIndex = mConcavePairsStartIndex
          /\ G.mMapPairIdToPairIndex = mMapPairIdToPairIndex
          /\ \A i \in PairSlots :
                /\ G.mLive[i]
                /\ G.mPairIds[i] = mPairIds[i]
                /\ G.mPairBroadPhaseId1[i] = mPairBroadPhaseId1[i]
                /\ G.mPairBroadPhaseId2[i] = mPairBroadPhaseId2[i]
                /\ G.mProxyShapes1[i] = mProxyShapes1[i]
                /\ G.mProxyShapes2[i] = mProxyShapes2[i]
                /\ G.mLastFrameCollisionInfos[i] = mLastFrameCollisionInfos[i]
                /\ G.mNeedToTestOverlap[i] = mNeedToTestOverlap[i]
                /\ G.mIsActive[i] = mIsActive[i]
LookupGivesIndex ==
    Completed => \A i \in PairSlots :
                    /\ mPairIds[i] \in DOMAIN mMapPairIdToPairIndex
                    /\ mMapPairIdToPairIndex[mPairIds[i]] = i
GrowthStep ==
    mNbAllocatedPairs' # mNbAllocatedPairs =>
       /\ lastCall'.op = "addPair"
       /\ mNbPairs = mNbAllocatedPairs
       /\ mNbAllocatedPairs' = mNbAllocatedPairs * 2
Growth ==
    /\ [](mNbPairs <= mNbAllocatedPairs /\ AllocateKeepsPairs /\ LookupGivesIndex)
    /\ [][GrowthStep]_vars

GrowthWitness ==
    /\ Completed
    /\ lastCall.op = "addPair"
    /\ mNbAllocatedPairs = 2 * INIT_NB_ALLOCATED_PAIRS
    /\ mNbPairs = 2 * INIT_NB_ALLOCATED_PAIRS

\* C10 - Reverse-lookup consistency: after every completed addPair or
\* removePair the pair ids registered with a shape are the identities of
\* the pairs of the registry whose first or second proxy shape it is.
ReverseLookupConsistency ==
    Completed =>
       \A s \in Shapes :
          mOverlappingPairs[s] =
             { mPairIds[i] : i \in { j \in PairSlots :
                                      mProxyShapes1[j] = s \/ mProxyShapes2[j] = s } }

ReverseLookupWitness ==
    /\ Completed
    /\ lastCall.op = "removePair"
    /\ \E s \in Shapes : Cardinality(mOverlappingPairs[s]) >= 2
    /\ \E s \in Shapes : mOverlappingPairs[s] = {}

\* Feature keys cached by the pair stored at index i.
InfoKeys(i) == DOMAIN mLastFrameCollisionInfos[i]
\* The entry was touched by addLastFrameInfoIfNecessary since the last sweep.
Touched(info) == info.sweeps = 0

\* C5 - Grace period: a sweep keeps every entry touched since the sweep
\* before it, which has then been left untouched for one sweep, and purges
\* every entry that was already left untouched for one sweep; no entry is
\* ever left untouched for two sweeps.
GracePeriodStep ==
    (abort = "" /\ lastCall'.op = "clearObsoleteLastFrameCollisionInfos") =>
       \A i \in PairSlots : \A k \in InfoKeys(i) :
          /\ mLastFrameCollisionInfos[i][k].sweeps = 0
                => /\ k \in DOMAIN mLastFrameCollisionInfos'[i]
                   /\ mLastFrameCollisionInfos'[i][k].sweeps = 1
          /\ mLastFrameCollisionInfos[i][k].sweeps = 1
                => k \notin DOMAIN mLastFrameCollisionInfos'[i]
GracePeriod ==
    /\ [](\A i \in Slots : \A k \in InfoKeys(i) : mLastFrameCollisionInfos[i][k].sweeps <= 1)
    /\ [][GracePeriodStep]_vars

GracePeriodWitness ==
    /\ Completed
    /\ lastCall.op = "clearObsoleteLastFrameCollisionInfos"
    /\ \E i \in PairSlots : \E k \in InfoKeys(i) :
          mLastFrameCollisionInfos[i][k].sweeps = 1

\* C6 - A sweep deletes, in every pair, exactly the entries that were not
\* touched since the sweep before it, and every entry it keeps is obsolete
\* when it returns.
SweepStep ==
    (abort = "" /\ lastCall'.op = "clearObsoleteLastFrameCollisionInfos") =>
       \A i \in PairSlots :
          /\ DOMAIN mLastFrameCollisionInfos'[i]
                = { k \in InfoKeys(i) : Touched(mLastFrameCollisionInfos[i][k]) }
          /\ \A k \in DOMAIN mLastFrameCollisionInfos'[i] :
                mLastFrameCollisionInfos'[i][k].isObsolete
SweepDeletesUntouched == [][SweepStep]_vars

SweepWitness ==
    /\ Completed
    /\ lastCall.op = "clearObsoleteLastFrameCollisionInfos"
    /\ \E i \in PairSlots :
          /\ InfoKeys(i) # {}
          /\ \A k \in InfoKeys(i) : mLastFrameCollisionInfos[i][k].isObsolete
    /\ NbInfos(mLastFrameCollisionInfos) = 1

\* A computeOverlappingPairs() has just returned.
AfterCompute == Completed /\ lastCall.op = "computeOverlappingPairs"
\* The shape is tracked and its node was in the moved set when the call started.
WasMoved(s) == mBroadPhaseId[s] # -1 /\ mBroadPhaseId[s] \in movedAtStart
\* The fat bounds of two tracked shapes intersect.
FatOverlap(a, b) ==
    /\ mBroadPhaseId[a] # -1
    /\ mBroadPhaseId[b] # -1
    /\ testCollision(mNodes[mBroadPhaseId[a]].aabb, mNodes[mBroadPhaseId[b]].aabb)
\* Number of notifications of the ordered pair (a, b) in the last call.
NbNotified(a, b) == Cardinality({ i \in DOMAIN notified : notified[i] = << a, b >> })

\* C3 as stated - within one computeOverlappingPairs() no unordered pair of
\* tracked objects is notified twice.
NotifiedOnce ==
    AfterCompute =>
       \A a \in BroadPhaseShapes, b \in BroadPhaseShapes :
          NbNotified(a, b) + NbNotified(b, a) <= 1

\* C3 - within one computeOverlappingPairs() a pair is notified once for
\* each of its members that was in the moved set, with that member as the
\* reference shape: no ordered pair is notified twice, the reference shape
\* of every notification was in the moved set, and the registry holds the
\* identity of the pair once.
NotifiedOncePerMovedMember ==
    AfterCompute =>
       \A a \in BroadPhaseShapes, b \in BroadPhaseShapes :
          /\ NbNotified(a, b) <= 1
          /\ NbNotified(a, b) = 1 =>
                /\ WasMoved(a)
                /\ a # b
                /\ FatOverlap(a, b)
                /\ Cardinality({ i \in PairSlots :
                       mPairIds[i] = ComputePairId(mBroadPhaseId[a], mBroadPhaseId[b]) }) = 1

NotifiedTwiceWitness ==
    /\ AfterCompute
    /\ \E a \in BroadPhaseShapes, b \in BroadPhaseShapes :
          /\ NbNotified(a, b) = 1
          /\ NbNotified(b, a) = 1
          /\ WasMoved(a)
          /\ WasMoved(b)

\* C4 as stated - after computeOverlappingPairs() every pair of tracked
\* objects whose fat bounds intersect and one of which was in the moved set
\* has been notified and is in the registry.
MovedComplete ==
    AfterCompute =>
       \A a \in BroadPhaseShapes, b \in BroadPhaseShapes :
          (a # b /\ FatOverlap(a, b) /\ WasMoved(a)) =>
             /\ NbNotified(a, b) >= 1
             /\ ComputePairId(mBroadPhaseId[a], mBroadPhaseId[b])
                   \in DOMAIN mMapPairIdToPairIndex

\* C4 - after computeOverlappingPairs() every pair of tracked objects of
\* different bodies whose fat bounds intersect and one of which was in the
\* moved set has been notified with the moved one as reference, and its
\* identity is in the registry.
MovedCompleteAcrossBodies ==
    AfterCompute =>
       \A a \in BroadPhaseShapes, b \in BroadPhaseShapes :
          (BodyOf(a) # BodyOf(b) /\ FatOverlap(a, b) /\ WasMoved(a)) =>
             /\ NbNotified(a, b) >= 1
             /\ ComputePairId(mBroadPhaseId[a], mBroadPhaseId[b])
                   \in DOMAIN mMapPairIdToPairIndex

MovedCompleteWitness ==
    /\ AfterCompute
    /\ \E a \in BroadPhaseShapes, b \in BroadPhaseShapes :
          /\ BodyOf(a) # BodyOf(b)
          /\ FatOverlap(a, b)
          /\ WasMoved(a)
          /\ ~WasMoved(b)
          /\ mBroadPhaseId[a] > mBroadPhaseId[b]
          /\ NbNotified(a, b) = 1
          /\ \E i \in PairSlots : mProxyShapes1[i] = a /\ mProxyShapes2[i] = b

\* ---------------------------------------------------------- pair activity
\* The types of a rigid body; "none" is a body without rigid body component.
BodyTypes == {"none", "STATIC", "KINEMATIC", "DYNAMIC"}

\* OverlappingPairs::computeBodiesIndexPair: the pair of the two body
\* entities, smaller id first.
computeBodiesIndexPair(body1Entity, body2Entity) ==
    IF body1Entity < body2Entity THEN << body1Entity, body2Entity >>
    ELSE << body2Entity, body1Entity >>

\* The pairs of bodies the no-collision set can hold.
BodyIndexPairs ==
    { computeBodiesIndexPair(bb[1], bb[2]) :
        bb \in { q \in Bodies \X Bodies : q[1] # q[2] } }

\* computeIsPairActive(shape1, shape2), lines 435-443: hasComponent(body)
\* and getBodyType(body) == STATIC; the body is enabled and not static.
isStaticRigidBody(types, bodyEntity) ==
    types[bodyEntity] # "none" /\ types[bodyEntity] = "STATIC"
isBodyActive(disabled, types, bodyEntity) ==
    ~disabled[bodyEntity] /\ ~isStaticRigidBody(types, bodyEntity)

\* computeIsPairActive(shape1, shape2)
computeIsPairActiveEither(disabled, types, noCollisionPairs, shape1, shape2) ==
    IF ~isBodyActive(disabled, types, BodyOf(shape1))
         \/ ~isBodyActive(disabled, types, BodyOf(shape2))
    THEN FALSE
    ELSE IF computeBodiesIndexPair(BodyOf(shape1), BodyOf(shape2)) \in noCollisionPairs
    THEN FALSE
    ELSE TRUE
computeIsPairActive(disabled, types, noCollisionPairs, shape1, shape2) ==
    IF ~isBodyActive(disabled, types, BodyOf(shape1))
         /\ ~isBodyActive(disabled, types, BodyOf(shape2))
    THEN FALSE
    ELSE IF computeBodiesIndexPair(BodyOf(shape1), BodyOf(shape2)) \in noCollisionPairs
    THEN FALSE
    ELSE TRUE

\* The activity scenario: an empty registry; every body is enabled or
\* disabled, has one of the types, and any pairs of bodies are excluded.
InitActive ==
    /\ SetRegInit(Constructed)
    /\ mBroadPhaseId = RegistryBroadPhaseIds
    /\ mNodes = NoArray
    /\ mMovedShapes = {}
    /\ notified = << >>
    /\ movedAtStart = {}
    /\ lastCall = Call("none")
    /\ mIsEntityDisabled \in [Bodies -> BOOLEAN]
    /\ mBodyType \in [Bodies -> BodyTypes]
    /\ mNoCollisionPairs \in SUBSET BodyIndexPairs
    /\ isPairActive = NoActiveCall
    /\ mProxyShapesComponents = AllComponentsEnabled
    /\ NoQuery

ComputeIsPairActive(shape1, shape2) ==
    /\ abort = ""
    /\ shape1 # shape2
    /\ isPairActive' =
          [called |-> TRUE, shape1 |-> shape1, shape2 |-> shape2,
           value |-> computeIsPairActive(mIsEntityDisabled, mBodyType,
                                         mNoCollisionPairs, shape1, shape2)]
    /\ lastCall' = Call("computeIsPairActive")
    /\ UNCHANGED << regVars, bpVars, mIsEntityDisabled, mBodyType, mNoCollisionPairs,
                    mProxyShapesComponents, queryVars >>

NextActive ==
    \E shape1 \in Shapes, shape2 \in Shapes : ComputeIsPairActive(shape1, shape2)

SpecActive == InitActive /\ [][NextActive]_vars

\* The body is disabled or is a static rigid body.
DisabledOrStatic(b) == mIsEntityDisabled[b] \/ mBodyType[b] = "STATIC"
\* The two bodies are listed as not colliding with each other.
Excluded(b1, b2) == << b1, b2 >> \in mNoCollisionPairs \/ << b2, b1 >> \in mNoCollisionPairs

\* C11 - computeIsPairActive(A, B) is false exactly when the bodies of A
\* and B are both disabled or static, or the two bodies are in the
\* no-collision set; it is false for two shapes of static bodies and true
\* when one body is enabled, not static and not excluded from the other.
PairActivity ==
    isPairActive.called =>
       \A b1 \in { BodyOf(isPairActive.shape1) }, b2 \in { BodyOf(isPairActive.shape2) } :
          /\ isPairActive.value = FALSE
                <=> \/ DisabledOrStatic(b1) /\ DisabledOrStatic(b2)
                    \/ Excluded(b1, b2)
          /\ (mBodyType[b1] = "STATIC" /\ mBodyType[b2] = "STATIC")
                => isPairActive.value = FALSE
          /\ ((~DisabledOrStatic(b1) \/ ~DisabledOrStatic(b2)) /\ ~Excluded(b1, b2))
                => isPairActive.value = TRUE

PairActivityWitness ==
    /\ isPairActive.called
    /\ isPairActive.value = TRUE
    /\ mBodyType[BodyOf(isPairActive.shape1)] = "STATIC"
    /\ mBodyType[BodyOf(isPairActive.shape2)] = "DYNAMIC"
    /\ ~mIsEntityDisabled[BodyOf(isPairActive.shape2)]
    /\ mNoCollisionPairs # {}

\* No two constructed slots hold the same pair identity.
NoTwoLivePairs ==
    \A i \in Slots, j \in Slots :
       (mLive[i] /\ mLive[j] /\ mPairIds[i] = mPairIds[j]) => i = j
\* An addPair stops at the assertion of line 257 exactly when the identity
\* of its two shapes is in the lookup.
DuplicateAddStep ==
    (abort = "" /\ lastCall'.op = "addPair") =>
       (abort' = "addPair:257" <=> lastCall'.pairId \in DOMAIN mMapPairIdToPairIndex)

\* C12 - addPair for two shapes whose pair identity is in the registry
\* fails at the assertion that the identity is absent, and the registry
\* never holds two pairs with the same identity.
AddPairPrecondition == []NoTwoLivePairs /\ [][DuplicateAddStep]_vars

AddPairPreconditionWitness ==
    /\ abort = "addPair:257"
    /\ lastCall.op = "addPair"
    /\ \E i \in Slots : /\ mLive[i]
                        /\ mProxyShapes1[i] = lastCall.shape1
                        /\ mProxyShapes2[i] = lastCall.shape2
                        /\ mPairIds[i] = lastCall.pairId

\* The pair identities that are not in the registry.
AbsentPairIds == PairIdUniverse \ DOMAIN mMapPairIdToPairIndex

\* In every state, removePair and addLastFrameInfoIfNecessary of an absent
\* identity stop at their first assertion with the registry as it was, and
\* a second removePair of an identity stops in the same way.
AbsentIdStops ==
    Completed =>
       /\ \A pairId \in AbsentPairIds :
             /\ removePair(Reg, pairId) = Abort(Reg, "removePair:125")
             /\ \A shapeId1 \in FeatureIds, shapeId2 \in FeatureIds :
                   addLastFrameInfoIfNecessary(Reg, pairId, shapeId1, shapeId2)
                      = Abort(Reg, "addLastFrameInfoIfNecessary:368")
       /\ \A pairId \in DOMAIN mMapPairIdToPairIndex :
             \A once \in { removePair(Reg, pairId) } :
                /\ once.abort = ""
                /\ removePair(once, pairId) = Abort(once, "removePair:125")
\* A call that stops at one of the two assertions changed nothing.
AbsentIdStep ==
    (abort = "" /\ abort' \in {"removePair:125", "addLastFrameInfoIfNecessary:368"})
       => UNCHANGED registryArrays

\* C13 - removePair(pairId) and addLastFrameInfoIfNecessary(pairId, ..)
\* called with a pair id that is not in the registry stop at an assertion
\* before they modify the registry; the second of two removePair of the
\* same pair stops there.
AbsentIdFails == []AbsentIdStops /\ [][AbsentIdStep]_vars

AbsentIdFailsWitness ==
    /\ abort = "removePair:125"
    /\ lastCall.op = "removePair"
    /\ mNbPairs >= 1
    /\ \E i \in PairSlots : mLastFrameCollisionInfos[i] # EmptyInfos

\* The registry fields other than the last-frame caches and the entries
\* in use are the same in G as in the current state.
SameButInfos(G) ==
    [G EXCEPT !.mLastFrameCollisionInfos = mLastFrameCollisionInfos,
              !.mAllocatedInfos = mAllocatedInfos] = Reg

\* In every state, for every pair of the registry and every ordered key:
\* the call completes, changes nothing but the cache of that pair, keeps
\* the other entries of that cache, and either clears the obsolete flag of
\* the entry of the key, adding none, or adds one fresh entry under the key.
AddInfoEffect ==
    Completed =>
       \A pairId \in DOMAIN mMapPairIdToPairIndex :
       \A shapeId1 \in FeatureIds, shapeId2 \in FeatureIds :
       \A G \in { addLastFrameInfoIfNecessary(Reg, pairId, shapeId1, shapeId2) } :
       \A index \in { mMapPairIdToPairIndex[pairId] } :
          /\ G.abort = ""
          /\ SameButInfos(G)
          /\ \A i \in Slots \ {index} :
                G.mLastFrameCollisionInfos[i] = mLastFrameCollisionInfos[i]
          /\ DOMAIN G.mLastFrameCollisionInfos[index]
                = InfoKeys(index) \cup { << shapeId1, shapeId2 >> }
          /\ \A k \in InfoKeys(index) \ { << shapeId1, shapeId2 >> } :
                G.mLastFrameCollisionInfos[index][k] = mLastFrameCollisionInfos[index][k]
          /\ ~G.mLastFrameCollisionInfos[index][<< shapeId1, shapeId2 >>].isObsolete
          /\ NbInfos(G.mLastFrameCollisionInfos)
                = IF << shapeId1, shapeId2 >> \in InfoKeys(index)
                  THEN NbInfos(mLastFrameCollisionInfos)
                  ELSE NbInfos(mLastFrameCollisionInfos) + 1
          /\ << shapeId1, shapeId2 >> \in InfoKeys(index)
                => G.mAllocatedInfos = mAllocatedInfos
          /\ << shapeId1, shapeId2 >> \notin InfoKeys(index)
                => \A info \in { G.mLastFrameCollisionInfos[index][<< shapeId1, shapeId2 >>] } :
                      /\ info = NewLastFrameCollisionInfo(info.ptr)
                      /\ info.ptr \notin mAllocatedInfos
                      /\ G.mAllocatedInfos = mAllocatedInfos \cup {info.ptr}
\* A completed call adds at most one entry and changes one cache at most.
AddInfoStep ==
    (abort = "" /\ abort' = "" /\ lastCall'.op = "addLastFrameInfoIfNecessary") =>
       /\ NbInfos(mLastFrameCollisionInfos') - NbInfos(mLastFrameCollisionInfos) \in {0, 1}
       /\ Cardinality({ i \in Slots :
             mLastFrameCollisionInfos'[i] # mLastFrameCollisionInfos[i] }) <= 1
       /\ UNCHANGED << mNbPairs, mConcavePairsStartIndex, mPairIds,
                       mMapPairIdToPairIndex, mOverlappingPairs >>

\* C14 - addLastFrameInfoIfNecessary(pairId, f1, f2) clears the obsolete
\* flag of the entry of the key (f1, f2) of the pair and allocates nothing
\* when the entry exists, allocates and inserts one fresh entry under the
\* key otherwise; the other entries of the pair and the caches of the
\* other pairs are unchanged.
AddInfoOnce == []AddInfoEffect /\ [][AddInfoStep]_vars

AddInfoOnceWitness ==
    /\ Completed
    /\ lastCall.op = "addLastFrameInfoIfNecessary"
    /\ \E i \in PairSlots :
          /\ Cardinality(InfoKeys(i)) = 2
          /\ \E k \in InfoKeys(i) : mLastFrameCollisionInfos[i][k].isObsolete
          /\ \E k \in InfoKeys(i) : ~mLastFrameCollisionInfos[i][k].isObsolete

\* After a computeOverlappingPairs() every notified pair has a member that
\* was in the moved set when the call started.
NotifiedHasMovedMember ==
    AfterCompute =>
       \A i \in DOMAIN notified : WasMoved(notified[i][1]) \/ WasMoved(notified[i][2])
\* A node enters the moved set only when addProxyCollisionShape creates it
\* or when a refresh reinserts it.
MovedSetEntryStep ==
    \A id \in mMovedShapes' \ mMovedShapes :
       \/ /\ lastCall'.op = "addProxyCollisionShape"
          /\ id \notin DOMAIN mNodes
          /\ id \in DOMAIN mNodes'
       \/ /\ lastCall'.op = "updateProxyShapeInternal"
          /\ id \in DOMAIN mNodes
          /\ mNodes'[id].aabb # mNodes[id].aabb

\* C15 - during computeOverlappingPairs() a pair is notified only if one
\* of its two shapes is in the moved set, and a shape is in the moved set
\* only if it was added, or reinserted by a refresh, since the call before.
MovedShapeRestriction == []NotifiedHasMovedMember /\ [][MovedSetEntryStep]_vars

MovedShapeRestrictionWitness ==
    /\ AfterCompute
    /\ notified # << >>
    /\ \E a \in BroadPhaseShapes, b \in BroadPhaseShapes :
          /\ BodyOf(a) # BodyOf(b)
          /\ FatOverlap(a, b)
          /\ ~WasMoved(a)
          /\ ~WasMoved(b)
          /\ NbNotified(a, b) + NbNotified(b, a) = 0

\* A removeProxyCollisionShape adds nothing to the moved set.
RemoveAddsNoMovedStep ==
    lastCall'.op = "removeProxyCollisionShape" => mMovedShapes' \subseteq mMovedShapes
\* A computeOverlappingPairs() that starts with an empty moved set notifies
\* no pair and leaves the registry as it is.
IdleComputeStep ==
    (abort = "" /\ lastCall'.op = "computeOverlappingPairs" /\ mMovedShapes = {}) =>
       /\ notified' = << >>
       /\ UNCHANGED regVars

\* C16 - computeOverlappingPairs() leaves the moved set empty, and a second
\* computeOverlappingPairs() with no addProxyCollisionShape and no refresh
\* in between notifies no pair.
MovedSetCleared ==
    /\ [](AfterCompute => mMovedShapes = {})
    /\ [][RemoveAddsNoMovedStep /\ IdleComputeStep]_vars

MovedSetClearedWitness ==
    /\ AfterCompute
    /\ movedAtStart = {}
    /\ notified = << >>
    /\ mNbPairs >= 1
    /\ \E a \in BroadPhaseShapes, b \in BroadPhaseShapes :
          BodyOf(a) # BodyOf(b) /\ FatOverlap(a, b)

\* C17 - computeOverlappingPairs() never notifies two shapes of the same
\* body and never notifies a shape with itself, whatever the fat bounds.
BroadPhaseFiltering ==
    AfterCompute =>
       \A i \in DOMAIN notified :
          /\ notified[i][1] # notified[i][2]
          /\ mBroadPhaseId[notified[i][1]] # mBroadPhaseId[notified[i][2]]
          /\ BodyOf(notified[i][1]) # BodyOf(notified[i][2])

BroadPhaseFilteringWitness ==
    /\ AfterCompute
    /\ notified # << >>
    /\ \E a \in BroadPhaseShapes, b \in BroadPhaseShapes :
          /\ a # b
          /\ BodyOf(a) = BodyOf(b)
          /\ FatOverlap(a, b)
          /\ WasMoved(a)
          /\ WasMoved(b)

\* The nodes whose fat AABB changes in the step: the reinserted nodes.
Reinserted == { id \in DOMAIN mNodes : id \in DOMAIN mNodes' /\ mNodes'[id] # mNodes[id] }
\* A refresh reinserts one node at most and adds to the moved set the node
\* it reinserted, nothing else; it changes nothing else.
RefreshStep ==
    (abort = "" /\ lastCall'.op = "updateProxyShapeInternal") =>
       /\ Cardinality(Reinserted) <= 1
       /\ mMovedShapes' = mMovedShapes \cup Reinserted
       /\ DOMAIN mNodes' = DOMAIN mNodes
       /\ UNCHANGED << mBroadPhaseId, regVars >>

\* C18 - updateProxyShapeInternal adds the broad-phase id of the shape to
\* the moved set if and only if the update of the tree reinserted the
\* node; otherwise the moved set is unchanged.
RefreshMarksMoved == [][RefreshStep]_vars

RefreshMarksMovedWitness ==
    /\ Completed
    /\ lastCall.op = "updateProxyShapeInternal"
    /\ \E id \in mMovedShapes :
          mNodes[id].aabb.max - mNodes[id].aabb.min > 1 + 2 * DYNAMIC_TREE_AABB_GAP
    /\ \E id \in DOMAIN mNodes : id \notin mMovedShapes

\* The shapes that stop being tracked in the step.
Untracked == { s \in Shapes : mBroadPhaseId[s] # -1 /\ mBroadPhaseId'[s] = -1 }
\* A completed removeProxyCollisionShape gives the id -1 to one shape,
\* removes its node from the tree and its node id from the moved set, and
\* changes nothing else.
RemoveStep ==
    (abort = "" /\ lastCall'.op = "removeProxyCollisionShape" /\ abort' = "") =>
       /\ Cardinality(Untracked) = 1
       /\ \A s \in Untracked :
             /\ mBroadPhaseId' = [mBroadPhaseId EXCEPT ![s] = -1]
             /\ mNodes' = [id \in (DOMAIN mNodes) \ {mBroadPhaseId[s]} |-> mNodes[id]]
             /\ mMovedShapes' = mMovedShapes \ {mBroadPhaseId[s]}
       /\ UNCHANGED registryArrays
\* Every id of the moved set is a node of the tree, and no
\* computeOverlappingPairs() reads a removed node or notifies with an
\* untracked shape as reference.
NoRemovedReference ==
    /\ mMovedShapes \subseteq DOMAIN mNodes
    /\ abort # "computeOverlappingPairs:read of a removed node"
    /\ AfterCompute => \A i \in DOMAIN notified : mBroadPhaseId[notified[i][1]] # -1

\* C19 - removeProxyCollisionShape(S) sets the broad-phase id of S to -1,
\* removes its node from the tree and removes the node id from the moved
\* set if it is there, so that the next computeOverlappingPairs() does not
\* take a removed shape as reference node.
RemoveUnmarksMoved == []NoRemovedReference /\ [][RemoveStep]_vars

RemoveUnmarksMovedWitness ==
    /\ Completed
    /\ lastCall.op = "removeProxyCollisionShape"
    /\ mMovedShapes # {}
    /\ \E s \in RemovableShapes : mBroadPhaseId[s] = -1
    /\ \E id \in DOMAIN mNodes : id \notin mMovedShapes

\* The shapes that become tracked in the step.
NewlyTracked == { s \in Shapes : mBroadPhaseId[s] = -1 /\ mBroadPhaseId'[s] # -1 }
\* An addProxyCollisionShape that completes gives one untracked shape a new
\* node and puts the node id in the moved set; one that stops at the
\* assertion of line 82 changed nothing.
AddStep ==
    (abort = "" /\ lastCall'.op = "addProxyCollisionShape") =>
       IF abort' = ""
       THEN /\ Cardinality(NewlyTracked) = 1
            /\ \A s \in NewlyTracked :
                  /\ mBroadPhaseId'[s] # -1
                  /\ mBroadPhaseId'[s] \notin DOMAIN mNodes
                  /\ DOMAIN mNodes' = DOMAIN mNodes \cup {mBroadPhaseId'[s]}
                  /\ mNodes'[mBroadPhaseId'[s]].data = s
                  /\ mMovedShapes' = mMovedShapes \cup {mBroadPhaseId'[s]}
                  /\ \A t \in Shapes \ {s} : mBroadPhaseId'[t] = mBroadPhaseId[t]
       ELSE /\ abort' = "addProxyCollisionShape:82"
            /\ UNCHANGED << mBroadPhaseId, mNodes, mMovedShapes, registryArrays >>
\* A node leaves the moved set only in a computeOverlappingPairs() or when
\* it is removed from the tree.
MovedUntilComputeStep ==
    \A id \in mMovedShapes \ mMovedShapes' :
       \/ lastCall'.op = "computeOverlappingPairs"
       \/ lastCall'.op = "removeProxyCollisionShape" /\ id \notin DOMAIN mNodes'
\* A computeOverlappingPairs() takes every node of the moved set as
\* reference: it notifies it with every other node it overlaps that has
\* another body.
ReferenceStep ==
    (abort = "" /\ lastCall'.op = "computeOverlappingPairs" /\ abort' = "") =>
       /\ movedAtStart' = mMovedShapes
       /\ \A id \in mMovedShapes, n \in DOMAIN mNodes :
             ( /\ id # n
               /\ BodyOf(mNodes[id].data) # BodyOf(mNodes[n].data)
               /\ testCollision(mNodes[id].aabb, mNodes[n].aabb) )
             => \E i \in DOMAIN notified' :
                   notified'[i] = << mNodes[id].data, mNodes[n].data >>

\* C20 - addProxyCollisionShape(S, aabb) requires S to be untracked, gives
\* S a node id different from -1 and puts it in the moved set, where it
\* stays until S is removed or the next computeOverlappingPairs() takes it
\* as reference node.
AddMarksMoved == [][AddStep /\ MovedUntilComputeStep /\ ReferenceStep]_vars

AddMarksMovedWitness ==
    /\ Completed
    /\ lastCall.op = "addProxyCollisionShape"
    /\ Cardinality(mMovedShapes) >= 2
    /\ \E id \in DOMAIN mNodes : id \notin mMovedShapes
    /\ mNbPairs >= 1

\* ------------------------------------------------------ broad-phase queries
\* DynamicAABBTree::getFatAABB and DynamicAABBTree::getNodeDataPointer
getFatAABB(nodes, nodeId) == nodes[nodeId].aabb
getNodeDataPointer(nodes, nodeId) == nodes[nodeId].data

\* testOverlappingShapes(shape1, shape2)
testOverlappingShapesFirst(bp, nodes, shape1, shape2) ==
    IF bp[shape1] = -1 THEN FALSE
    ELSE IF bp[shape2] = -1 THEN TRUE
    ELSE testCollision(getFatAABB(nodes, bp[shape1]), getFatAABB(nodes, bp[shape2]))
testOverlappingShapes(bp, nodes, shape1, shape2) ==
    IF bp[shape1] = -1 \/ bp[shape2] = -1 THEN FALSE
    ELSE testCollision(getFatAABB(nodes, bp[shape1]), getFatAABB(nodes, bp[shape2]))

\* Bitwise and of two unsigned short values.
RECURSIVE BitAnd(_, _)
BitAnd(a, b) ==
    IF a = 0 \/ b = 0 THEN 0
    ELSE (a % 2) * (b % 2) + 2 * BitAnd(a \div 2, b \div 2)

\* ProxyShape::getCollisionCategoryBits of the shapes of the scenario.
CollisionCategoryBits == [s \in Shapes |-> IF s = 1 THEN 1 ELSE IF s = 2 THEN 2 ELSE 4]
\* The category masks handed to a raycast.
RaycastMasks == {0, 1, 2, 5}
\* The values RaycastTest::raycastAgainstShape can return: -1, or a
\* fraction of the ray, of which the two ends are taken.
HitFractions == {-1, 0, 1}

\* raycastBroadPhaseShape(nodeId, ray), lines 275-281: << shape handed to
\* the precise test or 0, hit fraction >>; fraction is what the precise
\* test returns when it is called.
raycastBroadPhaseShapeUnfiltered(nodes, mask, nodeId, fraction) ==
    << getNodeDataPointer(nodes, nodeId), fraction >>
raycastBroadPhaseShape(nodes, mask, nodeId, fraction) ==
    IF BitAnd(mask, CollisionCategoryBits[getNodeDataPointer(nodes, nodeId)]) # 0
    THEN << getNodeDataPointer(nodes, nodeId), fraction >>
    ELSE << 0, -1 >>

\* A query of the broad phase: it only reads.
Query(op) ==
    [op |-> op, shape1 |-> 0, shape2 |-> 0, overlapping |-> FALSE,
     nodeId |-> -1, mask |-> 0, tested |-> 0, hitFraction |-> -1]

TestOverlappingShapes(shape1, shape2) ==
    /\ abort = ""
    /\ lastQuery' = [Query("testOverlappingShapes") EXCEPT
                       !.shape1 = shape1, !.shape2 = shape2,
                       !.overlapping = testOverlappingShapes(mBroadPhaseId, mNodes,
                                                             shape1, shape2)]
    /\ lastCall' = Call("testOverlappingShapes")
    /\ UNCHANGED << regVars, bpVars, bodyVars >>

\* raycastBroadPhaseShape(nodeId, ray), called by the tree for a leaf the
\* ray crosses.
RaycastBroadPhaseShape(nodeId, mask, fraction) ==
    /\ abort = ""
    /\ nodeId \in DOMAIN mNodes
    /\ \E res \in { raycastBroadPhaseShape(mNodes, mask, nodeId, fraction) } :
          lastQuery' = [Query("raycastBroadPhaseShape") EXCEPT
                          !.nodeId = nodeId, !.mask = mask,
                          !.tested = res[1], !.hitFraction = res[2]]
    /\ lastCall' = Call("raycastBroadPhaseShape")
    /\ UNCHANGED << regVars, bpVars, bodyVars >>

\* The shapes of the query scenario.
QueryShapes == {1, 3}

\* The broad phase with its queries; no shape is removed and a refresh has
\* no displacement.
NextQuery ==
    \/ \E proxyShape \in QueryShapes, p \in Positions :
          AddProxyCollisionShape(proxyShape, AABBAt(p))
    \/ \E proxyShape \in QueryShapes, p \in Positions :
          UpdateProxyShapeInternal(proxyShape, AABBAt(p), 0)
    \/ ComputeOverlappingPairs
    \/ \E shape1 \in QueryShapes, shape2 \in QueryShapes :
          TestOverlappingShapes(shape1, shape2)
    \/ \E nodeId \in NodeIds, mask \in RaycastMasks, fraction \in HitFractions :
          RaycastBroadPhaseShape(nodeId, mask, fraction)

SpecQuery == InitBP /\ [][NextQuery]_vars

\* -------------------------------------------------- properties, C21 and C27
\* The fat bounds of two tracked shapes intersect: as closed intervals they
\* share a point.
FatBoundsIntersect(shape1, shape2) ==
    \E x \in -8 .. 16 :
       /\ mNodes[mBroadPhaseId[shape1]].aabb.min <= x
       /\ x <= mNodes[mBroadPhaseId[shape1]].aabb.max
       /\ mNodes[mBroadPhaseId[shape2]].aabb.min <= x
       /\ x <= mNodes[mBroadPhaseId[shape2]].aabb.max
\* The answer to the query of the step is false when a shape is untracked
\* and the intersection of the fat bounds otherwise, and the step leaves
\* the moved set, the tree, the ids and the registry as they were.
OverlapQueryStep ==
    lastCall'.op = "testOverlappingShapes" =>
       /\ lastQuery'.overlapping =
             (/\ mBroadPhaseId[lastQuery'.shape1] # -1
              /\ mBroadPhaseId[lastQuery'.shape2] # -1
              /\ FatBoundsIntersect(lastQuery'.shape1, lastQuery'.shape2))
       /\ UNCHANGED << mMovedShapes, mNodes, mBroadPhaseId, regVars >>
\* In the state reached, the answer is the same for both orders of the
\* shapes and is what the ids and the tree alone give, whatever the moved
\* set holds.
OverlapQuerySymmetric ==
    \A shape1 \in BroadPhaseShapes, shape2 \in BroadPhaseShapes :
       \A r \in { testOverlappingShapes(mBroadPhaseId, mNodes, shape1, shape2) } :
          /\ r = testOverlappingShapes(mBroadPhaseId, mNodes, shape2, shape1)
          /\ r = (/\ mBroadPhaseId[shape1] # -1
                  /\ mBroadPhaseId[shape2] # -1
                  /\ FatBoundsIntersect(shape1, shape2))

\* C21 - testOverlappingShapes(A, B) is false when either shape is
\* untracked and otherwise tells whether the two fat bounds intersect; the
\* answer does not depend on the moved set, is the same for (B, A), and the
\* call changes neither the moved set nor the tree.
OverlapQuery == [][OverlapQueryStep /\ OverlapQuerySymmetric']_vars

\* Two distinct tracked shapes are found overlapping while the moved set is
\* empty, and an untracked shape exists.
OverlapQueryWitness ==
    /\ lastCall.op = "testOverlappingShapes"
    /\ lastQuery.shape1 # lastQuery.shape2
    /\ lastQuery.overlapping
    /\ mMovedShapes = {}
    /\ mBroadPhaseId[2] = -1
\* A query with an untracked second shape.
OverlapQueryUntrackedWitness ==
    /\ lastCall.op = "testOverlappingShapes"
    /\ mBroadPhaseId[lastQuery.shape1] # -1
    /\ mBroadPhaseId[lastQuery.shape2] = -1
    /\ ~lastQuery.overlapping

\* Bit b (a power of two) is set in the value v.
HasBit(v, b) == (v \div b) % 2 = 1
\* The category bits of the shape and the mask of the raycast share a bit.
MaskAdmits(mask, shape) ==
    \E b \in {1, 2, 4, 8} : HasBit(mask, b) /\ HasBit(CollisionCategoryBits[shape], b)
\* The raycast callback of the step handed the shape of the node to the
\* precise test only if the mask admits the shape, and then returns what
\* the test returned; otherwise no shape was tested and it returns -1.
RaycastStep ==
    lastCall'.op = "raycastBroadPhaseShape" =>
       \A shape \in { mNodes[lastQuery'.nodeId].data } :
          /\ lastQuery'.tested # 0 => MaskAdmits(lastQuery'.mask, shape)
          /\ MaskAdmits(lastQuery'.mask, shape) => lastQuery'.tested = shape
          /\ ~MaskAdmits(lastQuery'.mask, shape) =>
                lastQuery'.tested = 0 /\ lastQuery'.hitFraction = -1
          /\ UNCHANGED << mMovedShapes, mNodes, mBroadPhaseId, regVars >>

\* C27 - for a node visited by the broad-phase raycast, the precise ray
\* test is invoked only when the collision category bits of the shape
\* intersect the raycast mask; when the mask excludes the shape the
\* callback returns the hit fraction -1 without testing the shape.
RaycastFiltering == [][RaycastStep]_vars

\* A raycast with a non-zero mask that excludes the shape of the visited
\* node, where the precise test would have reported a hit.
RaycastFilteringWitness ==
    /\ lastCall.op = "raycastBroadPhaseShape"
    /\ lastQuery.mask # 0
    /\ lastQuery.tested = 0
    /\ lastQuery.hitFraction = -1
    /\ lastQuery.nodeId \in DOMAIN mNodes
    /\ ~MaskAdmits(lastQuery.mask, mNodes[lastQuery.nodeId].data)
\* A raycast whose mask admits the shape, with the hit of the precise test.
RaycastTestedWitness ==
    /\ lastCall.op = "raycastBroadPhaseShape"
    /\ lastQuery.tested # 0
    /\ lastQuery.hitFraction = 1

\* ------------------------------------------------ lifecycle of a shape, C22
\* Shapes of the lifecycle scenario, of two bodies.
LifecycleShapes == {1, 3}

\* The broad phase with the registry: shapes are added, refreshed without
\* displacement and removed, the overlapping pairs are computed, and a pair
\* of the reverse-lookup set of a shape is removed from the registry.
NextLifecycle ==
    \/ \E proxyShape \in LifecycleShapes, p \in Positions :
          AddProxyCollisionShape(proxyShape, AABBAt(p))
    \/ \E proxyShape \in LifecycleShapes : RemoveProxyCollisionShape(proxyShape)
    \/ \E proxyShape \in LifecycleShapes, p \in Positions :
          UpdateProxyShapeInternal(proxyShape, AABBAt(p), 0)
    \/ ComputeOverlappingPairs
    \/ \E proxyShape \in LifecycleShapes :
          \E pairId \in mOverlappingPairs[proxyShape] : RemovePair(pairId)

SpecLifecycle == InitBP /\ [][NextLifecycle]_vars

\* The shape is tracked under the node id, and the node holds the shape.
TrackedAs(proxyShape, nodeId) ==
    /\ nodeId # -1
    /\ mBroadPhaseId[proxyShape] = nodeId
    /\ nodeId \in DOMAIN mNodes
    /\ mNodes[nodeId].data = proxyShape

\* The step is a completed removeProxyCollisionShape(proxyShape).
RemovalOf(proxyShape) ==
    /\ lastCall'.op = "removeProxyCollisionShape"
    /\ abort' = ""
    /\ mBroadPhaseId[proxyShape] # -1
    /\ mBroadPhaseId'[proxyShape] = -1

\* After the step no live pair has the shape among its two shapes.
NoPairOf(proxyShape) ==
    \A i \in 0 .. (mNbPairs' - 1) :
       /\ mProxyShapes1'[i] # proxyShape
       /\ mProxyShapes2'[i] # proxyShape

\* After the step no live pair has the shape or the node id among its two
\* shapes and two node ids.
NoPairReferences(proxyShape, nodeId) ==
    /\ NoPairOf(proxyShape)
    /\ \A i \in 0 .. (mNbPairs' - 1) :
          /\ mPairBroadPhaseId1'[i] # nodeId
          /\ mPairBroadPhaseId2'[i] # nodeId

\* The identities of the live pairs that have the shape, after the step.
PairsReferencing(proxyShape) ==
    { mPairIds'[i] : i \in { j \in 0 .. (mNbPairs' - 1) :
                               \/ mProxyShapes1'[j] = proxyShape
                               \/ mProxyShapes2'[j] = proxyShape } }

\* C22 - when a tracked object is removed from the broad phase, every
\* overlapping pair that involves it is purged: afterwards no live pair of
\* the registry references the removed object or its old node id.
RemovalPurgesPairs ==
    [][\A s \in Shapes : RemovalOf(s) => NoPairReferences(s, mBroadPhaseId[s])]_vars

\* C22, amended - removeProxyCollisionShape removes the node of the object,
\* sets its id to -1, takes the id out of the moved set and leaves the
\* registry as it is: the live pairs
\* that reference the removed object afterwards are exactly the pairs of its
\* reverse-lookup set before the call, so no live pair references it exactly
\* when its pairs were removed with removePair before the removal.
RemovalLeavesPairs ==
    [][\A s \in Shapes :
          RemovalOf(s) =>
             /\ mBroadPhaseId[s] \notin DOMAIN mNodes'
             /\ mBroadPhaseId[s] \notin mMovedShapes'
             /\ UNCHANGED registryArrays
             /\ PairsReferencing(s) = mOverlappingPairs[s]
             /\ (mOverlappingPairs[s] = {}) = NoPairOf(s)]_vars

\* The last call removed the only untracked shape, and a pair of that shape
\* is still live in the registry.
RemovalLeavesPairsWitness ==
    /\ Completed
    /\ lastCall.op = "removeProxyCollisionShape"
    /\ \E s \in LifecycleShapes :
          /\ \A t \in LifecycleShapes : (mBroadPhaseId[t] = -1) = (t = s)
          /\ mOverlappingPairs[s] # {}
          /\ \E i \in 0 .. (mNbPairs - 1) : s \in {mProxyShapes1[i], mProxyShapes2[i]}

\* ------------------------------------------------------------- destruction
\* ~OverlappingPairs, lines 69-73: the pair leaves the sets of its shapes.
detachPairAtDestruction(R, index) ==
    LET body(r) ==
          IF r.abort # "" THEN r
          ELSE IF r.mPairIds[index] \notin r.mOverlappingPairs[r.mProxyShapes1[index]]
               THEN Abort(r, "~OverlappingPairs:70")
          ELSE IF r.mPairIds[index] \notin r.mOverlappingPairs[r.mProxyShapes2[index]]
               THEN Abort(r, "~OverlappingPairs:71")
          ELSE [r EXCEPT
                  !.mOverlappingPairs[r.mProxyShapes1[index]] = @ \ {r.mPairIds[index]},
                  !.mOverlappingPairs[r.mProxyShapes2[index]] = @ \ {r.mPairIds[index]}]
    IN Force(body, R)

\* ~OverlappingPairs, lines 57-76, for the pairs from index i on: the
\* entries of the pair are released, the pair leaves the sets of its shapes
\* and is destroyed.
RECURSIVE destroyPairsFrom(_, _)
destroyPairsFrom(R, i) ==
    LET body(r) ==
          IF r.abort # "" \/ ~(i < r.mNbPairs) THEN r
          ELSE destroyPairsFrom(
                 destroyPair(
                   detachPairAtDestruction(
                     releaseInfos(r, r.mLastFrameCollisionInfos[i],
                                  DOMAIN r.mLastFrameCollisionInfos[i]),
                     i),
                   i),
                 i + 1)
    IN Force(body, R)

\* The registry is gone: no call is made on it again.
endOfLife(R) ==
    LET body(r) == IF r.abort # "" THEN r ELSE Abort(r, "destroyed")
    IN Force(body, R)

\* ~OverlappingPairs()
destroyRegistry(R) ==
    LET body(r) ==
          IF r.abort # "" THEN r
          ELSE IF r.mNbAllocatedPairs > 0
          THEN endOfLife(destroyPairsFrom(r, 0))
          ELSE endOfLife(r)
    IN Force(body, R)

Destructor ==
    /\ abort = ""
    /\ SetReg(destroyRegistry(Reg))
    /\ lastCall' = [Call("~OverlappingPairs") EXCEPT !.preNb = mNbPairs]
    /\ UNCHANGED << bpVars, bodyVars, queryVars >>

\* The registry with its last-frame caches, from construction to destruction.
NextOwnership ==
    \/ \E shape1 \in Shapes, shape2 \in Shapes :
          shape1 < shape2 /\ AddPair(shape1, shape2, TRUE)
    \/ \E pairId \in PairIdUniverse : RemovePair(pairId)
    \/ \E pairId \in PairIdUniverse, shapeId1 \in FeatureIds, shapeId2 \in FeatureIds :
          /\ shapeId1 # shapeId2
          /\ AddLastFrameInfoIfNecessary(pairId, shapeId1, shapeId2)
    \/ ClearObsoleteLastFrameCollisionInfos
    \/ Destructor

SpecOwnership == Init /\ [][NextOwnership]_vars

\* ------------------------------------------------------ properties, C23-C30
\* What the slot i holds of its pair.
PairAt(i) ==
    [pairId |-> mPairIds[i],
     broadPhaseId1 |-> mPairBroadPhaseId1[i],
     broadPhaseId2 |-> mPairBroadPhaseId2[i],
     proxyShape1 |-> mProxyShapes1[i],
     proxyShape2 |-> mProxyShapes2[i],
     isActive |-> mIsActive[i],
     needToTestOverlap |-> mNeedToTestOverlap[i],
     lastFrameCollisionInfos |-> mLastFrameCollisionInfos[i]]
\* The identities of the pairs in the registry.
LiveIds == DOMAIN mMapPairIdToPairIndex
\* An addPair or removePair keeps, of every pair that is in the registry
\* before and after it, everything but the index; a completed addPair adds
\* its identity to the pairs and a completed removePair takes one away.
PersistenceStep ==
    lastCall'.op \in {"addPair", "removePair"} =>
       /\ \A pairId \in LiveIds \cap LiveIds' :
             \A i \in { mMapPairIdToPairIndex[pairId] },
                j \in { mMapPairIdToPairIndex'[pairId] } :
                /\ mLive'[j]
                /\ PairAt(i) = PairAt(j)'
       /\ (lastCall'.op = "addPair" /\ abort' = "")
             => LiveIds' = LiveIds \cup {lastCall'.pairId}
       /\ (lastCall'.op = "addPair" /\ abort' # "") => LiveIds' = LiveIds
       /\ lastCall'.op = "removePair"
             => \/ LiveIds' = LiveIds /\ abort' # ""
                \/ \E pairId \in LiveIds : LiveIds' = LiveIds \ {pairId} /\ abort' = ""

\* C23 - an addPair or removePair of a pair P, with the slot moves and the
\* reallocation it triggers, leaves the identity, the broad-phase ids, the
\* shapes, the isActive and needToTestOverlap flags and the whole last-frame
\* cache of every other pair of the registry unchanged; only the index of
\* such a pair may change.
PersistenceAcrossReordering == [][PersistenceStep]_vars

\* An addPair of a convex vs convex pair that reallocated the buffer and
\* moved a convex vs concave pair holding a last-frame entry to the end.
PersistenceAcrossReorderingWitness ==
    /\ Completed
    /\ lastCall.op = "addPair"
    /\ lastCall.preNb = INIT_NB_ALLOCATED_PAIRS
    /\ mNbAllocatedPairs = 2 * INIT_NB_ALLOCATED_PAIRS
    /\ lastCall.preStart < lastCall.preNb
    /\ mConcavePairsStartIndex = lastCall.preStart + 1
    /\ DOMAIN mLastFrameCollisionInfos[mNbPairs - 1] # {}

\* In every state and for every pair of the registry, at index i:
\* removePair completes with one pair less and the identities but the
\* removed one.  For i in the concave part the last pair comes to i and the
\* boundary stays; for i in the convex part the last convex pair comes to
\* i, the last concave pair comes to the slot the last convex pair had, and
\* the boundary goes down by one.  Every other slot keeps its pair.
RemovalShuffleInState ==
    Completed =>
       \A pairId \in LiveIds :
          \A G \in { removePair(Reg, pairId) }, i \in { mMapPairIdToPairIndex[pairId] } :
             /\ G.abort = ""
             /\ G.mNbPairs = mNbPairs - 1
             /\ DOMAIN G.mMapPairIdToPairIndex = LiveIds \ {pairId}
             /\ ~G.mLive[mNbPairs - 1]
             /\ IF i >= mConcavePairsStartIndex
                THEN /\ G.mConcavePairsStartIndex = mConcavePairsStartIndex
                     /\ \A j \in 0 .. (mNbPairs - 2) :
                           G.mPairIds[j] = IF j = i THEN mPairIds[mNbPairs - 1]
                                           ELSE mPairIds[j]
                ELSE /\ G.mConcavePairsStartIndex = mConcavePairsStartIndex - 1
                     /\ \A j \in 0 .. (mNbPairs - 2) :
                           G.mPairIds[j] =
                              IF j = mConcavePairsStartIndex - 1
                              THEN mPairIds[mNbPairs - 1]
                              ELSE IF j = i
                              THEN mPairIds[mConcavePairsStartIndex - 1]
                              ELSE mPairIds[j]
\* A completed removePair takes one from mNbPairs, and from the boundary
\* one or nothing.
RemovalShuffleStep ==
    (lastCall'.op = "removePair" /\ abort' = "") =>
       /\ mNbPairs' = mNbPairs - 1
       /\ mConcavePairsStartIndex' \in
             { mConcavePairsStartIndex, mConcavePairsStartIndex - 1 }
       /\ \E pairId \in LiveIds : LiveIds' = LiveIds \ {pairId}

\* C24 - removePair of a pair at index i >= mConcavePairsStartIndex moves
\* the last pair into i when i is not the last index, decrements mNbPairs
\* and keeps mConcavePairsStartIndex; removePair of a pair at
\* i < mConcavePairsStartIndex moves the last convex pair into i when i is
\* not the last convex index, then the last concave pair, if any, into the
\* slot the last convex pair had, and decrements mConcavePairsStartIndex
\* and mNbPairs; the identities afterwards are the previous ones minus the
\* removed one.
RemovalShuffle == []RemovalShuffleInState /\ [][RemovalShuffleStep]_vars

\* After a removePair, two convex vs convex pairs and a convex vs concave
\* pair are in the registry: the removal of the first pair moves two pairs.
RemovalShuffleWitness ==
    /\ Completed
    /\ lastCall.op = "removePair"
    /\ mConcavePairsStartIndex = 2
    /\ mNbPairs = 3

\* A completed addPair counts one pair more.  A convex vs concave pair is
\* at the index of the old count and the boundary stays; a convex vs convex
\* pair is at the old boundary, the pair that was there, if any, is at the
\* index of the old count, and the boundary goes up by one.  Every other
\* slot keeps its pair.
InsertionStep ==
    (lastCall'.op = "addPair" /\ abort' = "") =>
       /\ mNbPairs' = mNbPairs + 1
       /\ IF isConvex(lastCall'.shape1) /\ isConvex(lastCall'.shape2)
          THEN /\ mConcavePairsStartIndex' = mConcavePairsStartIndex + 1
               /\ mPairIds'[mConcavePairsStartIndex] = lastCall'.pairId
               /\ mMapPairIdToPairIndex'[lastCall'.pairId] = mConcavePairsStartIndex
               /\ mConcavePairsStartIndex # mNbPairs
                     => /\ mPairIds'[mNbPairs] = mPairIds[mConcavePairsStartIndex]
                        /\ mMapPairIdToPairIndex'[mPairIds[mConcavePairsStartIndex]]
                              = mNbPairs
               /\ \A j \in PairSlots \ {mConcavePairsStartIndex} :
                     mPairIds'[j] = mPairIds[j]
          ELSE /\ mConcavePairsStartIndex' = mConcavePairsStartIndex
               /\ mPairIds'[mNbPairs] = lastCall'.pairId
               /\ mMapPairIdToPairIndex'[lastCall'.pairId] = mNbPairs
               /\ \A j \in PairSlots : mPairIds'[j] = mPairIds[j]

\* C25 - addPair stores a convex vs concave pair at index mNbPairs (the old
\* count) and leaves mConcavePairsStartIndex unchanged; it stores a convex
\* vs convex pair at the old mConcavePairsStartIndex after the pair that was
\* at that index, if a concave pair exists, has been moved to index mNbPairs,
\* and increments mConcavePairsStartIndex; mNbPairs grows by exactly one in
\* both cases.
InsertionIndex == [][InsertionStep]_vars

\* An addPair of a convex vs convex pair while a convex vs concave pair was
\* at the boundary: the new pair is below the boundary and a concave pair
\* is in the last slot.
InsertionIndexWitness ==
    /\ Completed
    /\ lastCall.op = "addPair"
    /\ isConvex(lastCall.shape1) /\ isConvex(lastCall.shape2)
    /\ lastCall.preStart < lastCall.preNb
    /\ mPairIds[lastCall.preStart] = lastCall.pairId
    /\ ~isConvex(mProxyShapes2[mNbPairs - 1]) \/ ~isConvex(mProxyShapes1[mNbPairs - 1])

\* The lookup is a bijection between the identities of the registry and
\* the indices below mNbPairs: it maps the identity of every such index to
\* the index, no two indices hold the same identity, and each of its keys
\* is the identity of the index it gives.
IndexMapBijection ==
    Completed =>
       /\ \A i \in PairSlots :
             /\ mPairIds[i] \in DOMAIN mMapPairIdToPairIndex
             /\ mMapPairIdToPairIndex[mPairIds[i]] = i
       /\ \A i \in PairSlots, j \in PairSlots : i # j => mPairIds[i] # mPairIds[j]
       /\ \A pairId \in DOMAIN mMapPairIdToPairIndex :
             /\ mMapPairIdToPairIndex[pairId] \in PairSlots
             /\ mPairIds[mMapPairIdToPairIndex[pairId]] = pairId

\* C28 - after any sequence of addPair and removePair calls the lookup maps
\* mPairIds[i] to i for every i < mNbPairs, the identities at distinct
\* indices are distinct, and the lookup has no key that is not stored at
\* an index below mNbPairs.
IndexMapExactness == []IndexMapBijection

\* After a removePair from a full buffer of four slots, a convex vs convex
\* pair and two convex vs concave pairs are left.
IndexMapExactnessWitness ==
    /\ Completed
    /\ lastCall.op = "removePair"
    /\ mNbAllocatedPairs = 2 * INIT_NB_ALLOCATED_PAIRS
    /\ mNbPairs = 3
    /\ mConcavePairsStartIndex = 1

\* An addPair that stops at the assertion of line 257 has left the
\* boundary, the capacity, the slots and the lookup as they were.
DuplicateAddStopsUnchanged ==
    (abort = "" /\ lastCall'.op = "addPair" /\ abort' = "addPair:257") =>
       UNCHANGED << mConcavePairsStartIndex, mNbAllocatedPairs, mPairIds,
                    mPairBroadPhaseId1, mPairBroadPhaseId2, mProxyShapes1,
                    mProxyShapes2, mLastFrameCollisionInfos, mNeedToTestOverlap,
                    mIsActive, mLive, mMapPairIdToPairIndex >>

\* C30 - when addPair is called for an identity that is already present,
\* the registry at the point where the failure of the precondition is
\* detected is the registry before the call: mConcavePairsStartIndex,
\* mNbAllocatedPairs, the slots and the lookup have not been modified.
DuplicateAddLeavesRegistry == [][DuplicateAddStopsUnchanged]_vars

\* The addresses of the entries of the cache of the slot i.
InfosOf(i) == { mLastFrameCollisionInfos[i][k].ptr : k \in DOMAIN mLastFrameCollisionInfos[i] }
\* The pair of the identity in the registry G is a fresh one: its cache is
\* empty, it need not be tested for overlap, and it is active as asked.
FreshPair(G, pairId, isActive) ==
    /\ G.abort = ""
    /\ pairId \in DOMAIN G.mMapPairIdToPairIndex
    /\ \A j \in { G.mMapPairIdToPairIndex[pairId] } :
          /\ G.mLive[j]
          /\ DOMAIN G.mLastFrameCollisionInfos[j] = {}
          /\ G.mNeedToTestOverlap[j] = FALSE
          /\ G.mIsActive[j] = isActive
\* In every state with room for a pair: removePair of a pair releases the
\* entries of its cache and no other; addPair of two shapes whose pair is
\* not in the registry gives a fresh pair and allocates nothing; and
\* addPair of the shapes of a pair just removed gives a fresh pair too,
\* with the entries the pair had released.
RemoveReleasesAddStartsEmpty ==
    (Completed /\ mNbPairs < MaxPairs) =>
       /\ \A pairId \in LiveIds :
             \A i \in { mMapPairIdToPairIndex[pairId] } :
             \A H \in { removePair(Reg, pairId) } :
                /\ H.abort = ""
                /\ H.mAllocatedInfos = mAllocatedInfos \ InfosOf(i)
                /\ \A isActive \in BOOLEAN :
                   \A G \in { addPair(H, mBroadPhaseId, mProxyShapes1[i],
                                      mProxyShapes2[i], isActive) } :
                      /\ FreshPair(G, pairId, isActive)
                      /\ G.mAllocatedInfos = H.mAllocatedInfos
       /\ \A shape1 \in Shapes, shape2 \in Shapes, isActive \in BOOLEAN :
             \A pairId \in { ComputePairId(mBroadPhaseId[shape1], mBroadPhaseId[shape2]) } :
                (shape1 # shape2 /\ pairId \notin LiveIds) =>
                   \A G \in { addPair(Reg, mBroadPhaseId, shape1, shape2, isActive) } :
                      /\ FreshPair(G, pairId, isActive)
                      /\ G.mAllocatedInfos = mAllocatedInfos
\* A completed addPair leaves its pair with an empty cache and not to be
\* tested; a completed removePair leaves in use the entries of the pairs
\* that stay, and no other.
FreshPairStep ==
    /\ (lastCall'.op = "addPair" /\ abort' = "") =>
          /\ DOMAIN mLastFrameCollisionInfos'[mMapPairIdToPairIndex'[lastCall'.pairId]] = {}
          /\ ~mNeedToTestOverlap'[mMapPairIdToPairIndex'[lastCall'.pairId]]
          /\ mAllocatedInfos' = mAllocatedInfos
    /\ (lastCall'.op = "removePair" /\ abort' = "") =>
          \E i \in PairSlots :
             /\ mPairIds[i] \notin LiveIds'
             /\ mAllocatedInfos' = mAllocatedInfos \ InfosOf(i)

\* C26 - removePair releases every last-frame entry of the removed pair,
\* and a pair created by addPair starts with an empty last-frame cache,
\* needToTestOverlap false and isActive equal to the argument, also when
\* the same identity was in the registry before and had cached entries.
FreshPairAfterRemoval == []RemoveReleasesAddStartsEmpty /\ [][FreshPairStep]_vars

\* After a removePair that released an entry (the address 0 is free while
\* 1 is in use), a pair of the registry holds an obsolete entry: its
\* removal and a new addPair of its shapes are among the cases.
FreshPairAfterRemovalWitness ==
    /\ Completed
    /\ lastCall.op = "removePair"
    /\ mNbPairs < MaxPairs
    /\ mAllocatedInfos = {1}
    /\ \E i \in PairSlots : \E k \in DOMAIN mLastFrameCollisionInfos[i] :
          mLastFrameCollisionInfos[i][k].isObsolete

\* The entries the caches of the slots below mNbPairs reference, each with
\* the slot and the key that reference it.
ReferencedInfos ==
    UNION { { << mLastFrameCollisionInfos[i][k].ptr, i, k >> :
                 k \in DOMAIN mLastFrameCollisionInfos[i] } : i \in PairSlots }
\* While the registry is in use: the entries in use are the entries the
\* caches of the pairs reference, no entry is referenced under two keys,
\* and no slot without a pair references an entry.
InfosOwned ==
    Completed =>
       /\ mAllocatedInfos = { ref[1] : ref \in ReferencedInfos }
       /\ \A ref1 \in ReferencedInfos, ref2 \in ReferencedInfos :
             ref1[1] = ref2[1] => ref1 = ref2
       /\ \A i \in Slots \ PairSlots : DOMAIN mLastFrameCollisionInfos[i] = {}
\* No release is ever made of an entry that is not in use, and the
\* destructor runs to its end and leaves no entry in use.
InfosReleasedOnce ==
    /\ abort # "release:entry not allocated"
    /\ lastCall.op = "~OverlappingPairs" => abort = "destroyed" /\ mAllocatedInfos = {}
\* A step releases the entries that leave the caches and no other, and
\* allocates the entries that enter them.
InfosReleasedStep ==
    abort' \in {"", "destroyed"} =>
       /\ mAllocatedInfos \ mAllocatedInfos'
             = { ref[1] : ref \in ReferencedInfos } \ { ref[1] : ref \in ReferencedInfos' }
       /\ mAllocatedInfos' \ mAllocatedInfos
             = { ref[1] : ref \in ReferencedInfos' } \ { ref[1] : ref \in ReferencedInfos }

\* C29 - after any sequence of addPair, removePair,
\* addLastFrameInfoIfNecessary and clearObsoleteLastFrameCollisionInfos
\* calls, the LastFrameCollisionInfo objects allocated and not yet released
\* are the entries referenced from the caches of the live pairs, each
\* referenced by exactly one cache key; no entry is released twice, none
\* is released while still referenced, and the destructor releases all.
InfoOwnership == [](InfosOwned /\ InfosReleasedOnce) /\ [][InfosReleasedStep]_vars

\* The destructor ran on a registry of two pairs that held two entries.
InfoOwnershipWitness ==
    /\ abort = "destroyed"
    /\ lastCall.op = "~OverlappingPairs"
    /\ lastCall.preNb = 2
    /\ mAllocatedInfos = {}
\* An entry at the address 0 is in use while the address 1 is free again:
\* two entries were allocated and the second was released.
InfoOwnershipReuseWitness ==
    /\ Completed
    /\ mAllocatedInfos = {1}
    /\ lastCall.op = "clearObsoleteLastFrameCollisionInfos"

\* ------------------------------------------------------ properties, C32
\* Every id of the moved set is an id a tracked shape has now, and the
\* node of that id holds the shape.
MovedSetValid ==
    \A id \in mMovedShapes :
       /\ id # -1
       /\ \E s \in Shapes : TrackedAs(s, id)

\* C32 - after any sequence of addProxyCollisionShape,
\* removeProxyCollisionShape, refresh and computeOverlappingPairs calls,
\* every id in the moved set is different from -1 and is the node id of a
\* tracked object that is registered now, so computeOverlappingPairs()
\* never reads the fat bound or the payload of a removed node.
MovedSetValidity == []MovedSetValid

\* After a removal two shapes are tracked and both are in the moved set.
MovedSetValidityWitness ==
    /\ Completed
    /\ lastCall.op = "removeProxyCollisionShape"
    /\ Cardinality(mMovedShapes) = 2
    /\ Cardinality(DOMAIN mNodes) = 2


\* ------------------------------------------- refresh of the components, C31
\* Components::getNbComponents and Components::getNbEnabledComponents.
getNbComponents(components) == Len(components.mProxyShapesEntities)
getNbEnabledComponents(components) == components.mNbEnabledComponents

\* The tree and the moved set as one value, with the assertion that failed.
BroadPhase == [mNodes |-> mNodes, mMovedShapes |-> mMovedShapes, abort |-> abort]

\* updateProxyShapeInternal(broadPhaseId, aabb, displacement), lines 132-147
updateProxyShapeInternal(B, broadPhaseId, aabb, displacement) ==
    LET body(b) ==
          IF ~(broadPhaseId >= 0) THEN Abort(b, "updateProxyShapeInternal:134")
          ELSE LET reinserted(updated) ==
                     [b EXCEPT !.mNodes = updated[1],
                               !.mMovedShapes = IF updated[2] THEN @ \cup {broadPhaseId}
                                                ELSE @]
               IN Force(reinserted,
                        updateObject(b.mNodes, broadPhaseId, aabb, displacement))
    IN Force(body, B)

\* updateProxyShapesComponents, lines 168-194: the loop over the components
\* from index i to endIndex - 1.  The component of index i is the element
\* i + 1 of the sequence; aabbs and displacements give, for each shape, the
\* bound computed at line 189 and the displacement of lines 177-185.
RECURSIVE updateComponentsFrom(_, _, _, _, _, _, _)
updateComponentsFrom(B, components, bp, i, endIndex, aabbs, displacements) ==
    LET body(b) ==
          IF ~(i < endIndex) \/ b.abort # "" THEN b
          ELSE LET shape == components.mProxyShapesEntities[i + 1]
                   broadPhaseId == bp[shape]
               IN updateComponentsFrom(
                     IF broadPhaseId # -1
                     THEN updateProxyShapeInternal(b, broadPhaseId, aabbs[shape],
                                                   displacements[shape])
                     ELSE b,
                     components, bp, i + 1, endIndex, aabbs, displacements)
    IN Force(body, B)

\* updateProxyShapesComponents(startIndex, endIndex), lines 150-195
updateProxyShapesComponents(B, components, bp, startIndex, endIndex, aabbs, displacements) ==
    LET body(b) ==
          IF ~(startIndex <= endIndex)
          THEN Abort(b, "updateProxyShapesComponents:152")
          ELSE IF ~(startIndex < getNbComponents(components))
          THEN Abort(b, "updateProxyShapesComponents:153")
          ELSE IF ~(endIndex <= getNbComponents(components))
          THEN Abort(b, "updateProxyShapesComponents:154")
          ELSE updateComponentsFrom(
                  b, components, bp,
                  Min(startIndex, getNbEnabledComponents(components)),
                  Min(endIndex, getNbEnabledComponents(components)),
                  aabbs, displacements)
    IN Force(body, B)

\* Shapes of the refresh scenario.
UpdateShapes == {1, 3}

\* Sequences of distinct shapes of the set, of every length and order.
RECURSIVE Arrangements(_)
Arrangements(S) ==
    {<< >>} \cup UNION { { << s >> \o rest : rest \in Arrangements(S \ {s}) } : s \in S }

\* The component stores the scenario can start with: any of the shapes have
\* a component, in any order, and any number of the first ones are enabled.
ComponentStores ==
    UNION { { [mProxyShapesEntities |-> entities, mNbEnabledComponents |-> n] :
                n \in 0..Len(entities) } : entities \in Arrangements(UpdateShapes) }

\* The entity has a component (mMapEntityToComponentIndex.containsKey).
hasComponent(components, proxyShape) ==
    \E i \in 1..Len(components.mProxyShapesEntities) :
       components.mProxyShapesEntities[i] = proxyShape

\* mMapEntityToComponentIndex[proxyShapeEntity]
componentIndex(components, proxyShape) ==
    (CHOOSE i \in 1..Len(components.mProxyShapesEntities) :
        components.mProxyShapesEntities[i] = proxyShape) - 1

\* The component of the entity is enabled: its index is below the number of
\* enabled components.
isEnabled(components, proxyShape) ==
    /\ hasComponent(components, proxyShape)
    /\ componentIndex(components, proxyShape) < getNbEnabledComponents(components)

InitUpdate ==
    /\ SetRegInit(Constructed)
    /\ mBroadPhaseId = [s \in Shapes |-> -1]
    /\ mNodes = NoArray
    /\ mMovedShapes = {}
    /\ notified = << >>
    /\ movedAtStart = {}
    /\ lastCall = Call("none")
    /\ mIsEntityDisabled = [b \in Bodies |-> FALSE]
    /\ mBodyType = [b \in Bodies |-> "DYNAMIC"]
    /\ mNoCollisionPairs = {}
    /\ isPairActive = NoActiveCall
    /\ mProxyShapesComponents \in ComponentStores
    /\ NoQuery

\* The refresh writes the tree, the moved set and the assertion that failed.
SetBroadPhase(B) ==
    /\ mNodes' = B.mNodes
    /\ mMovedShapes' = B.mMovedShapes
    /\ abort' = B.abort

\* updateProxyShapes(), lines 125-129
UpdateProxyShapes(aabbs, displacements) ==
    /\ abort = ""
    /\ SetBroadPhase(updateProxyShapesComponents(
                        BroadPhase, mProxyShapesComponents, mBroadPhaseId, 0,
                        getNbEnabledComponents(mProxyShapesComponents),
                        aabbs, displacements))
    /\ notified' = << >>
    /\ movedAtStart' = {}
    /\ lastCall' = Call("updateProxyShapes")
    /\ UNCHANGED << mBroadPhaseId, registryArrays, bodyVars, queryVars >>

\* updateProxyShape(proxyShapeEntity), lines 113-122
UpdateProxyShape(proxyShape, aabbs, displacements) ==
    /\ abort = ""
    /\ IF ~hasComponent(mProxyShapesComponents, proxyShape)
       THEN /\ abort' = "updateProxyShape:115"
            /\ UNCHANGED << mNodes, mMovedShapes >>
       ELSE \E index \in { componentIndex(mProxyShapesComponents, proxyShape) } :
               SetBroadPhase(updateProxyShapesComponents(
                                BroadPhase, mProxyShapesComponents, mBroadPhaseId,
                                index, index + 1, aabbs, displacements))
    /\ notified' = << >>
    /\ movedAtStart' = {}
    /\ lastCall' = [Call("updateProxyShape") EXCEPT !.shape1 = proxyShape]
    /\ UNCHANGED << mBroadPhaseId, registryArrays, bodyVars, queryVars >>

\* The broad phase with its component store: the shapes that have a
\* component are added, all the enabled components or one component are
\* refreshed, and the overlapping pairs are computed.
NextUpdate ==
    \/ \E proxyShape \in UpdateShapes, p \in Positions :
          /\ hasComponent(mProxyShapesComponents, proxyShape)
          /\ AddProxyCollisionShape(proxyShape, AABBAt(p))
    \/ \E positions \in [UpdateShapes -> Positions],
          displacements \in [UpdateShapes -> Displacements] :
          UpdateProxyShapes([s \in UpdateShapes |-> AABBAt(positions[s])], displacements)
    \/ \E proxyShape \in UpdateShapes, positions \in [UpdateShapes -> Positions],
          displacements \in [UpdateShapes -> Displacements] :
          UpdateProxyShape(proxyShape, [s \in UpdateShapes |-> AABBAt(positions[s])],
                           displacements)
    \/ ComputeOverlappingPairs

SpecUpdate == InitUpdate /\ [][NextUpdate]_vars

\* ------------------------------------------------------ properties, C31
\* The refresh of all the enabled components reaches the component of the
\* shape: it has a component, the component is enabled and its id is not -1.
Refreshed(proxyShape) ==
    /\ isEnabled(mProxyShapesComponents, proxyShape)
    /\ mBroadPhaseId[proxyShape] # -1

\* A step of updateProxyShapes() leaves alone the node and the moved-set
\* entry of every tracked shape it does not reach.
RefreshesOnlyEnabledTracked ==
    \A s \in Shapes :
       (mBroadPhaseId[s] # -1 /\ ~Refreshed(s)) =>
          /\ mBroadPhaseId[s] \in DOMAIN mNodes'
          /\ mNodes'[mBroadPhaseId[s]] = mNodes[mBroadPhaseId[s]]
          /\ (mBroadPhaseId[s] \in mMovedShapes') = (mBroadPhaseId[s] \in mMovedShapes)

\* With no component the call changes neither the tree nor the moved set.
NoComponentNoOp ==
    getNbComponents(mProxyShapesComponents) = 0 =>
       UNCHANGED << mNodes, mMovedShapes, mBroadPhaseId >>

UpdateProxyShapesStep ==
    lastCall'.op = "updateProxyShapes" =>
       /\ abort' = ""
       /\ NoComponentNoOp
       /\ RefreshesOnlyEnabledTracked

\* C31 - updateProxyShapes() violates no assertion for any number of
\* registered proxy-shape components, including zero: with no components it
\* is a no-op, and in every case it refreshes only the enabled components
\* whose broad-phase id is not -1, leaving the nodes of the disabled
\* components and the moved-set entries of the other shapes untouched.
UpdateProxyShapesNeverAsserts == [][UpdateProxyShapesStep]_vars

\* The part of C31 that is about what is refreshed, without the assertions.
UpdateProxyShapesReach ==
    [][lastCall'.op = "updateProxyShapes" => RefreshesOnlyEnabledTracked]_vars

\* With at least one component the call violates no assertion.
UpdateProxyShapesWithComponents ==
    [][(lastCall'.op = "updateProxyShapes"
          /\ getNbComponents(mProxyShapesComponents) > 0) => abort' = ""]_vars
====
